---- MODULE Spec2Model ----
(***************************************************************************)
(* Open Banking Consent Choreographer: the Monitoring, Validation and      *)
(* Audit agents (src/agents).  The module models                           *)
(*   - the deterministic decision strategy (ValidationAgent),              *)
(*   - the A2A envelope transport and the two /a2a handlers,               *)
(*   - the audit ledger with its retention cap and its persisted file,     *)
(*   - the delegated strategy, its response parser and the fallback,       *)
(*   - the trigger detector of the Monitoring agent and its seen-count,    *)
(*   - the file-backed message queue, its lock marker and its constructor, *)
(*   - the HTTP boundary of the agents (request bodies and status codes),  *)
(*   - process_audit_log in the handler threads of the threaded server,    *)
(*   - the polling loops: Monitoring's batches and the Audit agent's       *)
(*     run_loop over the queue.                                            *)
(* Python dictionaries are functions from keys to values; a missing key is *)
(* a key outside DOMAIN, read with Get as dict.get reads it.  Text that    *)
(* the code inspects character by character (purpose) is a sequence of     *)
(* one-character strings.  Confidence values are in hundredths.            *)
(***************************************************************************)
EXTENDS Integers, Sequences, FiniteSets, Bags, TLC

VARIABLES
    trigger,      \* deterministic strategy: the trigger_data under evaluation
    result,       \* deterministic strategy: the ValidationResult, or NoResult
    audit_logs,   \* AuditAgent.audit_logs, the in-memory ledger
    audit_file,   \* content of /tmp/audit_logs.json
    appended,     \* history: every entry ever appended, in append order
    saved,        \* history: how the _save_audit_logs calls of the last append ended
    now,          \* int(time.time()), the wall clock in seconds
    sent,         \* history: every envelope built by A2AMessageQueue.send_message
    monCall,      \* the Monitoring agent's send_message call
    valCall,      \* the Validation agent's send_message call (audit forwarding)
    valWork,      \* the request ValidationAgent.process_a2a_message is serving
    inbox,        \* per agent: the HTTP request delivered to POST /a2a
    reply,        \* per caller: the last HTTP response received
    nsends,       \* number of top-level requests started so far
    client,       \* ValidationAgent.client: TRUE when the genai client exists
    generated,    \* what client.models.generate_content does when it is called
    ai_calls,     \* history: number of generate_content calls made
    last_transaction_count,  \* MonitoringAgent.last_transaction_count
    transactions, \* the batch handed to the last detect_consent_triggers call
    triggers,     \* what that call returned
    seen_sizes,   \* history: the sizes of the batches of all cycles so far
    outbox,       \* the triggers the last process_cycle sent to the Validation agent
    queue_file,   \* content of /tmp/agent_messages.json, a JSON array of envelopes
    queue_state,  \* that file: "absent", "ok" (the array), "empty" (zero bytes)
    lock_file,    \* TRUE when /tmp/agent_messages.json.lock exists
    procs,        \* per process: its send_message or get_messages call in progress
    posted,       \* history: the bag of envelopes written to the queue by send_message
    received,     \* history: the bag of envelopes returned by get_messages calls
    handlers      \* per handler thread of the Audit agent: its process_audit_log call

vars == <<trigger, result, audit_logs, audit_file, appended, saved, now, sent,
          monCall, valCall, valWork, inbox, reply, nsends,
          client, generated, ai_calls,
          last_transaction_count, transactions, triggers, seen_sizes, outbox,
          queue_file, queue_state, lock_file, procs, posted, received, handlers>>

mockVars   == <<trigger, result>>
engineVars == <<client, generated, ai_calls>>
detectorVars == <<last_transaction_count, transactions, triggers, seen_sizes, outbox>>
ledgerVars == <<audit_logs, audit_file, appended, saved>>
pipeVars   == <<now, sent, monCall, valCall, valWork, inbox, reply, nsends>>
queueVars  == <<queue_file, queue_state, lock_file, procs, posted, received>>

----------------------------------------------------------------------------
(* Python helpers *)

\* dict.get(key, default)
Get(d, k, default) == IF k \in DOMAIN d THEN d[k] ELSE default

\* A dictionary entry that is present (<<v>>) or missing (<<>>).
Opt(k, o) == IF o = <<>> THEN <<>> ELSE k :> o[1]

UpperChars == <<"A","B","C","D","E","F","G","H","I","J","K","L","M",
                "N","O","P","Q","R","S","T","U","V","W","X","Y","Z">>
LowerChars == <<"a","b","c","d","e","f","g","h","i","j","k","l","m",
                "n","o","p","q","r","s","t","u","v","w","x","y","z">>

\* str.lower() on one character
LowerChar(c) ==
    IF \E i \in DOMAIN UpperChars : UpperChars[i] = c
    THEN LowerChars[CHOOSE i \in DOMAIN UpperChars : UpperChars[i] = c]
    ELSE c

\* str.lower()
Lower(s) == [i \in DOMAIN s |-> LowerChar(s[i])]

\* needle in hay  (substring test on text)
Contains(needle, hay) ==
    \E i \in 0..(Len(hay) - Len(needle)) :
        \A j \in 1..Len(needle) : hay[i + j] = needle[j]

\* sep.join(parts), the text kept as its sequence of pieces
RECURSIVE Join(_, _)
Join(parts, sep) ==
    IF Len(parts) = 0 THEN <<>>
    ELSE IF Len(parts) = 1 THEN parts
    ELSE <<parts[1], sep>> \o Join(Tail(parts), sep)

Str_unknown       == <<"u","n","k","n","o","w","n">>
Str_international == <<"i","n","t","e","r","n","a","t","i","o","n","a","l">>
Str_cross_border  == <<"c","r","o","s","s","-","b","o","r","d","e","r">>
Str_unspecified   == <<"u","n","s","p","e","c","i","f","i","e","d">>

----------------------------------------------------------------------------
(* ValidationAgent: the deterministic strategy *)

\* _mock_validation, lines 316-343: the risk score and the reasons
RiskReasons(trigger_data) ==
    LET amount       == Get(trigger_data, "amount", 0)
        trigger_type == Get(trigger_data, "type", "unknown")
        purpose      == Get(trigger_data, "purpose", Str_unknown)
        provider     == Get(trigger_data, "third_party_provider", "unknown")
        r1 == IF amount > 5000
              THEN <<[score |-> 3,
                      reason |-> "High-value transaction requires enhanced scrutiny"]>>
              ELSE <<>>
        r2 == IF Contains(Str_international, Lower(purpose))
                 \/ Contains(Str_cross_border, Lower(purpose))
              THEN <<[score |-> 2,
                      reason |-> "International transfer requires additional verification"]>>
              ELSE <<>>
        r3 == IF provider # "" /\ provider # "bank"
              THEN <<[score |-> 1,
                      reason |-> "Third-party data sharing must be explicitly consented to"]>>
              ELSE <<>>
        r4 == IF trigger_type = "account_review"
              THEN <<[score |-> 1,
                      reason |-> "Account activity review requires user confirmation"]>>
              ELSE <<>>
    IN  r1 \o r2 \o r3 \o r4

RECURSIVE SumScores(_)
SumScores(rs) == IF rs = <<>> THEN 0 ELSE rs[1].score + SumScores(Tail(rs))

RiskScore(trigger_data) == SumScores(RiskReasons(trigger_data))

Reasons(trigger_data) ==
    LET rs == RiskReasons(trigger_data) IN [i \in DOMAIN rs |-> rs[i].reason]

\* _mock_validation with the score threshold of REJECT off by one
mock_validation_gt4(trigger_data) ==
    LET risk_score == RiskScore(trigger_data)
        reasons    == Reasons(trigger_data)
    IN  IF risk_score > 4
        THEN [decision |-> "REJECT", confidence |-> 85,
              reasoning |-> Join(reasons, "; ")
                            \o <<". Multiple PSD3 compliance concerns identified.">>,
              risk_level |-> "HIGH", valid |-> FALSE, ai_processed |-> FALSE]
        ELSE IF risk_score >= 2
        THEN [decision |-> "APPROVE", confidence |-> 75,
              reasoning |-> Join(reasons, "; ")
                            \o <<". Approved with conditions per PSD3 requirements.">>,
              risk_level |-> "MEDIUM", valid |-> TRUE, ai_processed |-> FALSE]
        ELSE [decision |-> "APPROVE", confidence |-> 95,
              reasoning |-> <<"Low-risk transaction compliant with PSD3 requirements.">>,
              risk_level |-> "LOW", valid |-> TRUE, ai_processed |-> FALSE]

\* _mock_validation, lines 314-372
mock_validation(trigger_data) ==
    LET risk_score == RiskScore(trigger_data)
        reasons    == Reasons(trigger_data)
    IN  IF risk_score >= 4
        THEN [decision |-> "REJECT", confidence |-> 85,
              reasoning |-> Join(reasons, "; ")
                            \o <<". Multiple PSD3 compliance concerns identified.">>,
              risk_level |-> "HIGH", valid |-> FALSE, ai_processed |-> FALSE]
        ELSE IF risk_score >= 2
        THEN [decision |-> "APPROVE", confidence |-> 75,
              reasoning |-> Join(reasons, "; ")
                            \o <<". Approved with conditions per PSD3 requirements.">>,
              risk_level |-> "MEDIUM", valid |-> TRUE, ai_processed |-> FALSE]
        ELSE [decision |-> "APPROVE", confidence |-> 95,
              reasoning |-> <<"Low-risk transaction compliant with PSD3 requirements.">>,
              risk_level |-> "LOW", valid |-> TRUE, ai_processed |-> FALSE]

----------------------------------------------------------------------------
(* AuditAgent: regulatory notes *)

None == [none |-> TRUE]

\* {} : the default of audit_data.get('validation_result', {})
EmptyDict == <<>>

\* len() of one piece of text
PieceLen(p) ==
    CASE p = "High-value transaction requires enhanced scrutiny" -> 49
      [] p = "International transfer requires additional verification" -> 55
      [] p = "Third-party data sharing must be explicitly consented to" -> 56
      [] p = "Account activity review requires user confirmation" -> 50
      [] p = ". Multiple PSD3 compliance concerns identified." -> 47
      [] p = ". Approved with conditions per PSD3 requirements." -> 49
      [] p = "Low-risk transaction compliant with PSD3 requirements." -> 54
      [] p = "; " -> 2
      [] p = "Consent scope is too broad" -> 26
      [] p = "The stated purpose is vague and the user cannot withdraw." -> 57

\* len() of a text kept as its sequence of pieces
RECURSIVE TextLen(_)
TextLen(text) == IF text = <<>> THEN 0 ELSE PieceLen(text[1]) + TextLen(Tail(text))

\* word in text.lower(), for the words _format_ai_reasoning_as_notes looks for
TextHas(text, word) ==
    \E i \in DOMAIN text :
        /\ text[i] = "The stated purpose is vague and the user cannot withdraw."
        /\ word \in {"purpose", "withdraw"}

\* 'third_party' in consent_type
HasThirdParty(consent_type) ==
    consent_type \in {"third_party_data_sharing", "third_party_sharing",
                      "third_party_balance_access", "third_party_transaction_sharing"}

Note(text, args) == [note |-> text, args |-> args]

\* _format_ai_reasoning_as_notes, lines 170-222.  A note is its fixed text and
\* the values formatted into it; the AI Analysis note carries the reasoning its
\* summary is cut from.
format_ai_reasoning_as_notes(ai_reasoning, validation_result, trigger_data) ==
    LET consent_type == Get(trigger_data, "type", "unknown")
        amount       == Get(trigger_data, "amount", 0)
        purpose      == Get(trigger_data, "purpose", Str_unspecified)
        provider     == Get(trigger_data, "third_party_provider", "unknown")
        user_id      == Get(trigger_data, "user_id", "unknown")
        decision     == Get(validation_result, "decision", "UNKNOWN")
        confidence   == Get(validation_result, "confidence", 0)
        third        == HasThirdParty(consent_type) \/ provider # "bank"
        head == <<Note(IF decision = "APPROVE" THEN "OK AI Assessment: Request"
                                                ELSE "X AI Assessment: Request",
                       <<consent_type>>),
                  Note("Confidence | Amount | Purpose", <<confidence, amount, purpose>>),
                  Note("Provider | User", <<provider, user_id>>)>>
        body == IF decision = "APPROVE"
                THEN <<Note("PSD3 Compliance: OK Request meets regulatory requirements", <<>>)>>
                     \o (IF amount > 5000
                         THEN <<Note("High-Value Review: OK transaction approved under enhanced scrutiny",
                                     <<amount>>)>>
                         ELSE <<>>)
                     \o (IF third
                         THEN <<Note("Third-Party Access: OK Explicit consent granted", <<provider>>)>>
                         ELSE <<>>)
                     \o <<Note("Data Processing: OK Purpose limitation and minimization applied", <<>>)>>
                ELSE <<Note("PSD3 Compliance: X Request does not meet all regulatory requirements", <<>>)>>
                     \o (IF amount > 5000
                         THEN <<Note("High-Value Review: X requires additional compliance measures",
                                     <<amount>>)>>
                         ELSE <<>>)
                     \o (IF third
                         THEN <<Note("Third-Party Access: X Additional verification needed", <<provider>>)>>
                         ELSE <<>>)
                     \o <<Note("Remediation: Review consent scope and obtain explicit user confirmation", <<>>)>>
        insights == (IF TextHas(ai_reasoning, "purpose")
                     THEN <<Note("Purpose Clarity: AI validated processing purpose specification", <<>>)>>
                     ELSE <<>>)
                    \o (IF TextHas(ai_reasoning, "withdraw") \/ TextHas(ai_reasoning, "revoke")
                        THEN <<Note("Withdrawal Rights: AI confirmed revocation mechanisms available", <<>>)>>
                        ELSE <<>>)
        summary == IF TextLen(ai_reasoning) > 100
                   THEN <<Note("AI Analysis", <<ai_reasoning>>)>>
                   ELSE <<>>
    IN  head \o body \o insights \o summary

\* _generate_regulatory_notes, lines 224-265
generate_regulatory_notes(validation_result, trigger_data) ==
    LET trigger_type == Get(trigger_data, "type", "unknown")
        is_valid     == Get(validation_result, "valid", FALSE)
        confidence   == Get(validation_result, "confidence", 0)
    IN  IF is_valid
        THEN <<Note("PSD3 Article 64 compliance confirmed", <<>>),
               Note("Explicit consent obtained for data processing", <<>>),
               Note("Data minimization principles applied", <<>>),
               Note("Right to withdraw consent maintained", <<>>),
               Note("Transparent privacy notice provided", <<>>),
               Note("AI validation confidence", <<confidence>>)>>
             \o (CASE trigger_type = "high_value_transaction" ->
                        <<Note("High-value transaction consent validated", <<>>)>>
                   [] trigger_type = "international_transfer" ->
                        <<Note("Cross-border transfer consent confirmed", <<>>)>>
                   [] trigger_type = "third_party_data_sharing" ->
                        <<Note("Third-party data sharing consent verified", <<>>)>>
                   [] trigger_type = "account_activity_review" ->
                        <<Note("Account activity consent review completed", <<>>)>>
                   [] OTHER -> <<>>)
        ELSE <<Note("REJECTED", <<Get(validation_result, "reason", "Validation failed")>>),
               Note("PSD3 Article 64: Consent must be specific and informed", <<>>),
               Note("Data protection impact assessment recommended", <<>>),
               Note("User notified of rejection with reasoning", <<>>),
               Note("Alternative narrower consent scope suggested", <<>>),
               Note("AI validation confidence", <<confidence>>)>>
             \o (IF confidence < 50
                 THEN <<Note("CRITICAL: Low confidence validation - manual review required", <<>>)>>
                 ELSE IF confidence < 70
                 THEN <<Note("WARNING: Moderate confidence - additional verification recommended", <<>>)>>
                 ELSE <<>>)

----------------------------------------------------------------------------
(* AuditAgent: the ledger *)

\* the retention cap of process_audit_log
LedgerCap == 100

\* the ledger file: absent, unparseable, or a JSON array of entries
FileOf(logs) == [state |-> "ok", logs |-> logs]
AbsentFile   == [state |-> "absent", logs |-> <<>>]
CorruptFile  == [state |-> "corrupt", logs |-> <<>>]

\* outcomes of one _save_audit_logs call: written; open() failed and the file
\* is as it was; the write failed after open() had emptied the file
SaveOutcomes == {"ok", "open_failed", "write_failed"}

\* a save that is queued for later: the file is as it was when the call returns
save_audit_logs_behind(file, logs, outcome) == file

\* _save_audit_logs, lines 49-55: the storage error is caught and logged
save_audit_logs(file, logs, outcome) ==
    CASE outcome = "ok"           -> FileOf(logs)
      [] outcome = "open_failed"  -> file
      [] outcome = "write_failed" -> CorruptFile

\* an initialization that ignores the file
load_audit_logs_fresh(file) == <<>>

\* _load_audit_logs, lines 38-47: the ledger stays [] when the file is absent and
\* is set to [] when reading or parsing it raises
load_audit_logs(file) == IF file.state = "ok" THEN file.logs ELSE <<>>

\* the entry with its notes always taken from the fixed template
AuditEntry_template(audit_data, clock) ==
    LET validation_result == Get(audit_data, "validation_result", EmptyDict)
        trigger_data      == Get(audit_data, "trigger_data", EmptyDict)
    IN  [timestamp         |-> Get(audit_data, "timestamp", clock),
         validation_result |-> validation_result,
         trigger_data      |-> trigger_data,
         source_agent      |-> Get(audit_data, "source_agent", "Unknown"),
         regulatory_notes  |-> generate_regulatory_notes(validation_result, trigger_data)]

\* process_audit_log, lines 139-157: the entry built from the payload
AuditEntry(audit_data, clock) ==
    LET validation_result == Get(audit_data, "validation_result", EmptyDict)
        trigger_data      == Get(audit_data, "trigger_data", EmptyDict)
        ai_reasoning      == Get(validation_result, "reasoning", <<>>)
        regulatory_notes  ==
            IF ai_reasoning # <<>> /\ TextLen(ai_reasoning) > 50
            THEN format_ai_reasoning_as_notes(ai_reasoning, validation_result, trigger_data)
            ELSE generate_regulatory_notes(validation_result, trigger_data)
    IN  [timestamp         |-> Get(audit_data, "timestamp", clock),
         validation_result |-> validation_result,
         trigger_data      |-> trigger_data,
         source_agent      |-> Get(audit_data, "source_agent", "Unknown"),
         regulatory_notes  |-> regulatory_notes]

\* the truncation with the slice taken from the front of the list
Truncate_keep_first(logs) ==
    IF Len(logs) > LedgerCap THEN SubSeq(logs, 1, LedgerCap) ELSE logs

\* the truncation with the test off by one
Truncate_late(logs) ==
    IF Len(logs) > LedgerCap + 1
    THEN SubSeq(logs, Len(logs) - LedgerCap + 1, Len(logs))
    ELSE logs

\* process_audit_log, lines 166-167: audit_logs[-100:] when longer than 100
Truncate(logs) ==
    IF Len(logs) > LedgerCap
    THEN SubSeq(logs, Len(logs) - LedgerCap + 1, Len(logs))
    ELSE logs

\* process_audit_log that only takes note of the payload: nothing is appended
\* by the time the caller is answered
process_audit_log_deferred(audit_data, save1, save2) ==
    UNCHANGED <<audit_logs, audit_file, appended, saved>>

\* process_audit_log that gives up after a failed write: the list is left as
\* appended to
process_audit_log_abort_on_error(audit_data, save1, save2) ==
    LET entry == AuditEntry(audit_data, now)
        logs1 == Append(audit_logs, entry)
        file1 == save_audit_logs(audit_file, logs1, save1)
        logs2 == IF save1 = "ok" THEN Truncate(logs1) ELSE logs1
    IN  /\ audit_logs' = logs2
        /\ audit_file' = IF Len(logs1) > LedgerCap /\ save1 = "ok"
                         THEN save_audit_logs(file1, logs2, save2)
                         ELSE file1
        /\ appended' = Append(appended, entry)
        /\ saved' = IF Len(logs1) > LedgerCap /\ save1 = "ok"
                    THEN <<save1, save2>> ELSE <<save1>>

\* process_audit_log, lines 137-168: append, save, truncate, save again
process_audit_log(audit_data, save1, save2) ==
    LET entry == AuditEntry(audit_data, now)
        logs1 == Append(audit_logs, entry)
        file1 == save_audit_logs(audit_file, logs1, save1)
        logs2 == Truncate(logs1)
    IN  /\ audit_logs' = logs2
        /\ audit_file' = IF Len(logs1) > LedgerCap
                         THEN save_audit_logs(file1, logs2, save2)
                         ELSE file1
        /\ appended' = Append(appended, entry)
        /\ saved' = IF Len(logs1) > LedgerCap THEN <<save1, save2>> ELSE <<save1>>

----------------------------------------------------------------------------
(* MonitoringAgent: the per-record trigger rules *)

Abs(n) == IF n < 0 THEN 0 - n ELSE n

\* the per-record rules with the routing rule tried before the amount rules
analyze_transaction_routing_first(transaction, clock) ==
    LET raw == Get(transaction, "amount", [num |-> 0])
    IN  IF "num" \notin DOMAIN raw THEN None
        ELSE
        LET amount       == Abs(raw.num)
            from_routing == Get(transaction, "from_routing_num", "")
            to_routing   == Get(transaction, "to_routing_num", "")
            found(type, reason) ==
                [type           |-> type,
                 transaction_id |-> Get(transaction, "id", "unknown"),
                 amount         |-> amount,
                 user_id        |-> Get(transaction, "account_id", "unknown"),
                 timestamp      |-> Get(transaction, "timestamp", clock),
                 reason         |-> reason]
        IN  IF from_routing # to_routing /\ from_routing # "" /\ to_routing # ""
            THEN found("international_transfer",
                       <<"International transfer detected - consent required",
                         from_routing, to_routing>>)
            ELSE IF amount > 5000
            THEN found("high_value_transaction",
                       <<"High-value transaction detected - PSD3 consent required for processing",
                         amount>>)
            ELSE IF amount > 1000
            THEN found("third_party_data_sharing",
                       <<"Large transaction may indicate third-party data sharing - consent verification required",
                         amount>>)
            ELSE None

\* _analyze_transaction_for_consent, lines 263-309.  A record's amount is a
\* JSON number [num |-> n] or a value float() refuses [text |-> s]; the
\* ValueError or TypeError is caught and the record yields no trigger.
analyze_transaction_for_consent(transaction, clock) ==
    LET raw == Get(transaction, "amount", [num |-> 0])
    IN  IF "num" \notin DOMAIN raw THEN None
        ELSE
        LET amount       == Abs(raw.num)
            account_id   == Get(transaction, "account_id", "unknown")
            timestamp    == Get(transaction, "timestamp", clock)
            from_routing == Get(transaction, "from_routing_num", "")
            to_routing   == Get(transaction, "to_routing_num", "")
            found(type, reason) ==
                [type           |-> type,
                 transaction_id |-> Get(transaction, "id", "unknown"),
                 amount         |-> amount,
                 user_id        |-> account_id,
                 timestamp      |-> timestamp,
                 reason         |-> reason]
        IN  IF amount > 5000
            THEN found("high_value_transaction",
                       <<"High-value transaction detected - PSD3 consent required for processing",
                         amount>>)
            ELSE IF from_routing # to_routing /\ from_routing # "" /\ to_routing # ""
            THEN found("international_transfer",
                       <<"International transfer detected - consent required",
                         from_routing, to_routing>>)
            ELSE IF amount > 1000
            THEN found("third_party_data_sharing",
                       <<"Large transaction may indicate third-party data sharing - consent verification required",
                         amount>>)
            ELSE None

----------------------------------------------------------------------------
(* Initial values shared by the specifications *)

Endpoints == {"ValidationAgent", "AuditAgent"}
Callers   == {"MonitoringAgent", "ValidationAgent", "Client"}

PipeInit ==
    /\ now = 0
    /\ sent = <<>>
    /\ monCall = None
    /\ valCall = None
    /\ valWork = None
    /\ inbox = [a \in Endpoints |-> None]
    /\ reply = [c \in Callers |-> None]
    /\ nsends = 0

\* the handler threads of the threaded WSGI server (audit_agent.py, line 130)
Threads == {"t1", "t2"}

\* a thread that serves no request; done lists the entries whose
\* process_audit_log call has returned in this thread
NoRequest == [pc |-> "idle", entry |-> None, slice |-> <<>>, done |-> <<>>]

LedgerEmpty ==
    /\ audit_file = AbsentFile
    /\ audit_logs = load_audit_logs(audit_file)
    /\ appended = <<>>
    /\ saved = <<>>
    /\ handlers = [t \in Threads |-> NoRequest]

MockIdle ==
    /\ trigger = None
    /\ result = None

\* ValidationAgent.__init__, lines 115-128, without GOOGLE_API_KEY
EngineIdle ==
    /\ client = FALSE
    /\ generated = None
    /\ ai_calls = 0

\* MonitoringAgent.__init__, line 146
DetectorIdle ==
    /\ last_transaction_count = 0
    /\ transactions = <<>>
    /\ triggers = <<>>
    /\ seen_sizes = <<>>
    /\ outbox = <<>>

\* the processes that share the queue file
Procs == {"p1", "p2"}

\* a process that is in no call
NoCall == [pc |-> "idle", op |-> "none", agent_name |-> "none", msg |-> None,
           queue |-> <<>>, messages |-> <<>>, lock |-> FALSE]

\* SharedMessageQueue.__init__, lines 17-26: the queue file exists and holds []
QueueIdle ==
    /\ queue_file = <<>>
    /\ queue_state = "ok"
    /\ lock_file = FALSE
    /\ procs = [p \in Procs |-> NoCall]
    /\ posted = EmptyBag
    /\ received = EmptyBag

----------------------------------------------------------------------------
(* SpecMock: the deterministic strategy applied to one trigger *)

Str_loan              == <<"l","o","a","n">>
Str_Intl_Transfer     == <<"I","n","t","e","r","n","a","t","i","o","n","a","l"," ",
                           "T","r","a","n","s","f","e","r">>
Str_CROSS_BORDER_fee  == <<"C","R","O","S","S","-","B","O","R","D","E","R"," ","f","e","e">>
Str_near_miss         == <<"i","n","t","e","r","n","a","l"," ","c","r","o","s","s"," ",
                           "b","o","r","d","e","r">>

TypeOpts     == {<<>>, <<"high_value_transaction">>, <<"international_transfer">>,
                 <<"third_party_data_sharing">>, <<"account_activity_review">>,
                 <<"account_review">>, <<"other">>}
AmountOpts   == {<<>>, <<0>>, <<1200>>, <<5000>>, <<5001>>, <<7500>>}
PurposeOpts  == {<<>>, <<Str_loan>>, <<Str_Intl_Transfer>>, <<Str_CROSS_BORDER_fee>>,
                 <<Str_near_miss>>}
ProviderOpts == {<<>>, <<"bank">>, <<"FinTechCorp">>, <<"">>}

\* trigger payloads assembled field by field, any field possibly missing
FieldTriggers ==
    { Opt("type", ty) @@ Opt("amount", am) @@ Opt("purpose", pu)
        @@ Opt("third_party_provider", pr) @@ [user_id |-> "user_1000"] :
      ty \in TypeOpts, am \in AmountOpts, pu \in PurposeOpts, pr \in ProviderOpts }

\* activity records as the transaction history service returns them
Transactions ==
    { [id |-> "tx1", account_id |-> "1234567890", timestamp |-> 0, amount |-> [num |-> am]]
        @@ Opt("from_routing_num", fr) @@ Opt("to_routing_num", to) :
      am \in {-7500, 500, 1200, 5001, 7500},
      fr \in {<<>>, <<"883745000">>},
      to \in {<<>>, <<"883745000">>, <<"123456789">>} }

\* the triggers the per-record rules emit for them
DetectorTriggers ==
    { analyze_transaction_for_consent(tx, 0) : tx \in Transactions } \ {None}

MockInit ==
    /\ trigger \in FieldTriggers \cup DetectorTriggers
    /\ result = None
    /\ EngineIdle
    /\ DetectorIdle
    /\ LedgerEmpty
    /\ PipeInit
    /\ QueueIdle

\* ValidationAgent._mock_validation applied to the trigger
MockValidate ==
    /\ result = None
    /\ result' = mock_validation(trigger)
    /\ UNCHANGED <<queueVars, handlers, trigger, engineVars, detectorVars, ledgerVars, pipeVars>>

MockNext == MockValidate

SpecMock == MockInit /\ [][MockNext]_vars

\* C8: the deterministic strategy maps the risk score to the verdict: score >= 4 gives
\* REJECT, 0.85, HIGH; score 2 or 3 gives APPROVE, 0.75, MEDIUM; score below 2 gives
\* APPROVE, 0.95, LOW.
C8_ScoreToVerdict ==
    result # None =>
        LET score == RiskScore(trigger)
        IN  /\ score >= 4 =>
                /\ result.decision = "REJECT"
                /\ result.confidence = 85
                /\ result.risk_level = "HIGH"
            /\ score \in {2, 3} =>
                /\ result.decision = "APPROVE"
                /\ result.confidence = 75
                /\ result.risk_level = "MEDIUM"
            /\ score < 2 =>
                /\ result.decision = "APPROVE"
                /\ result.confidence = 95
                /\ result.risk_level = "LOW"

\* a trigger scoring exactly 4 has been rejected
C8_Witness ==
    /\ result # None
    /\ RiskScore(trigger) = 4
    /\ result.decision = "REJECT"

\* the score the specification describes
HasInternational(trigger_data) ==
    /\ "purpose" \in DOMAIN trigger_data
    /\ \/ Contains(Str_international, Lower(trigger_data.purpose))
       \/ Contains(Str_cross_border, Lower(trigger_data.purpose))

HasNonBankProvider(trigger_data) ==
    /\ "third_party_provider" \in DOMAIN trigger_data
    /\ trigger_data.third_party_provider # "bank"

IsReview(trigger_data) ==
    /\ "type" \in DOMAIN trigger_data
    /\ trigger_data.type = "account_activity_review"

HasHighAmount(trigger_data) ==
    /\ "amount" \in DOMAIN trigger_data
    /\ trigger_data.amount > 5000

DescribedScore(trigger_data) ==
    (IF HasHighAmount(trigger_data) THEN 3 ELSE 0)
    + (IF HasInternational(trigger_data) THEN 2 ELSE 0)
    + (IF HasNonBankProvider(trigger_data) THEN 1 ELSE 0)
    + (IF IsReview(trigger_data) THEN 1 ELSE 0)

\* C9: for every trigger the risk score is exactly 3 if amount > 5000, plus 2 if purpose
\* contains "international" or "cross-border" (any case), plus 1 if third_party_provider
\* is present and not "bank", plus 1 if type is account_activity_review; nothing else
\* contributes.
C9_ScoreIsDescribedSum ==
    result # None => RiskScore(trigger) = DescribedScore(trigger)

\* C10: a trigger with amount > 5000 and no other flag set (no international purpose,
\* provider absent or "bank", type not a review) scores 3 and gets APPROVE, 0.75, MEDIUM;
\* in particular the detector's high_value_transaction trigger.
C10_HighAmountAloneIsMedium ==
    ( /\ result # None
      /\ HasHighAmount(trigger)
      /\ ~HasInternational(trigger)
      /\ ~HasNonBankProvider(trigger)
      /\ Get(trigger, "type", "unknown") \notin {"account_activity_review", "account_review"} )
    => /\ RiskScore(trigger) = 3
       /\ result.decision = "APPROVE"
       /\ result.confidence = 75
       /\ result.risk_level = "MEDIUM"

----------------------------------------------------------------------------
(* SpecLedger: appends to the audit ledger, each run to completion *)

\* appends per run of the ledger specification
MaxAppends == 2

\* AuditAgent.get_logs, lines 57-59
get_logs == [logs |-> audit_logs, count |-> Len(audit_logs)]

\* The ledger a previous run left in the file: n entries, the i-th built from
\* the i-th trigger, whose payload timestamps run against the append order.
StoredTrigger(i) ==
    [type |-> "third_party_data_sharing", transaction_id |-> i, amount |-> 1200,
     user_id |-> "1234567890", timestamp |-> 0,
     reason |-> <<"Large transaction may indicate third-party data sharing - consent verification required",
                  1200>>]

StoredPayload(i) ==
    [validation_result |-> mock_validation(StoredTrigger(i)),
     trigger_data      |-> StoredTrigger(i),
     source_agent      |-> "ValidationAgent",
     timestamp         |-> 1000 - i]

StoredLedger(n) == [i \in 1..n |-> AuditEntry(StoredPayload(i), 0)]

StoredLengths == {0, 1, LedgerCap - 1, LedgerCap}

\* audit payloads of the appends: with an old, a recent or no timestamp
LedgerPayloads ==
    { [validation_result |-> mock_validation(StoredTrigger(0)),
       trigger_data      |-> StoredTrigger(0),
       source_agent      |-> "ValidationAgent"] @@ Opt("timestamp", ts) :
      ts \in {<<>>, <<5>>, <<2000>>} }

\* AuditAgent.__init__: the ledger is loaded from the file
LedgerInit ==
    /\ audit_file \in {AbsentFile, CorruptFile}
                      \cup {FileOf(StoredLedger(n)) : n \in StoredLengths}
    /\ audit_logs = load_audit_logs(audit_file)
    /\ appended = audit_logs
    /\ saved = <<>>
    /\ handlers = [t \in Threads |-> NoRequest]
    /\ MockIdle
    /\ EngineIdle
    /\ DetectorIdle
    /\ PipeInit
    /\ QueueIdle

\* one call of process_audit_log
AppendEntry ==
    /\ nsends < MaxAppends
    /\ \E audit_data \in LedgerPayloads, save1 \in SaveOutcomes, save2 \in SaveOutcomes :
           process_audit_log(audit_data, save1, save2)
    /\ nsends' = nsends + 1
    /\ UNCHANGED <<queueVars, handlers, mockVars, engineVars, detectorVars, now, sent, monCall, valCall, valWork, inbox, reply>>

\* the process ends and a new one is constructed: __init__ loads the ledger from
\* the file, lines 21-36
Restart ==
    /\ audit_logs' = load_audit_logs(audit_file)
    /\ appended' = audit_logs'
    /\ saved' = <<>>
    /\ UNCHANGED <<queueVars, handlers, audit_file, mockVars, engineVars, detectorVars, pipeVars>>

LedgerNext == AppendEntry

SpecLedger == LedgerInit /\ [][LedgerNext]_vars

\* the ledger over several runs of the agent
RestartNext == AppendEntry \/ Restart

SpecRestart == LedgerInit /\ [][RestartNext]_vars

----------------------------------------------------------------------------
(* SpecThreads: process_audit_log run by the handler threads of the        *)
(* threaded server, statement by statement; no lock guards audit_logs       *)

\* the payload of the k-th request
RequestPayload(k) == [StoredPayload(0) EXCEPT !.timestamp = 2000 + k]

\* a request reaches a free handler thread; lines 139-157 build the entry
Accept(t) ==
    /\ handlers[t].pc = "idle"
    /\ nsends < MaxAppends
    /\ nsends' = nsends + 1
    /\ handlers' = [handlers EXCEPT ![t].pc = "append",
                                    ![t].entry = AuditEntry(RequestPayload(nsends), now)]
    /\ UNCHANGED <<queueVars, ledgerVars, mockVars, engineVars, detectorVars, now, sent, monCall, valCall, valWork, inbox, reply>>

\* line 159: self.audit_logs.append(audit_entry)
ListAppend(t) ==
    /\ handlers[t].pc = "append"
    /\ audit_logs' = Append(audit_logs, handlers[t].entry)
    /\ appended' = Append(appended, handlers[t].entry)
    /\ handlers' = [handlers EXCEPT ![t].pc = "save"]
    /\ UNCHANGED <<queueVars, audit_file, saved, mockVars, engineVars, detectorVars, pipeVars>>

\* lines 163 and 168: self._save_audit_logs() writes the list as it is now
SaveLogs(t) ==
    /\ handlers[t].pc \in {"save", "save_again"}
    /\ \E outcome \in SaveOutcomes :
           audit_file' = save_audit_logs(audit_file, audit_logs, outcome)
    /\ handlers' = [handlers EXCEPT ![t].pc =
                       IF handlers[t].pc = "save" THEN "test" ELSE "return"]
    /\ UNCHANGED <<queueVars, audit_logs, appended, saved, mockVars, engineVars, detectorVars, pipeVars>>

\* line 166: if len(self.audit_logs) > 100
TestLength(t) ==
    /\ handlers[t].pc = "test"
    /\ handlers' = [handlers EXCEPT ![t].pc =
                       IF Len(audit_logs) > LedgerCap THEN "slice" ELSE "return"]
    /\ UNCHANGED <<queueVars, ledgerVars, mockVars, engineVars, detectorVars, pipeVars>>

\* line 167, right-hand side: self.audit_logs[-100:] is a new list
TakeSlice(t) ==
    /\ handlers[t].pc = "slice"
    /\ handlers' = [handlers EXCEPT ![t].pc = "store",
                                    ![t].slice = Truncate(audit_logs)]
    /\ UNCHANGED <<queueVars, ledgerVars, mockVars, engineVars, detectorVars, pipeVars>>

\* line 167, the assignment: the attribute is bound to the new list
StoreSlice(t) ==
    /\ handlers[t].pc = "store"
    /\ audit_logs' = handlers[t].slice
    /\ handlers' = [handlers EXCEPT ![t].pc = "save_again", ![t].slice = <<>>]
    /\ UNCHANGED <<queueVars, audit_file, appended, saved, mockVars, engineVars, detectorVars, pipeVars>>

\* process_audit_log returns and the handler answers its request
ReturnEntry(t) ==
    /\ handlers[t].pc = "return"
    /\ handlers' = [handlers EXCEPT ![t].pc = "idle", ![t].entry = None,
                                    ![t].done = Append(@, handlers[t].entry)]
    /\ UNCHANGED <<queueVars, ledgerVars, mockVars, engineVars, detectorVars, pipeVars>>

ThreadsNext ==
    \E t \in Threads :
        \/ Accept(t)
        \/ ListAppend(t)
        \/ SaveLogs(t)
        \/ TestLength(t)
        \/ TakeSlice(t)
        \/ StoreSlice(t)
        \/ ReturnEntry(t)

SpecThreads == LedgerInit /\ [][ThreadsNext]_vars

\* C1: after any sequence of appends, each run to completion, the in-memory ledger
\* holds at most 100 entries.
C1_LedgerAtMostCap == Len(audit_logs) <= LedgerCap

\* an append has pushed the ledger over the cap and it was cut back to the cap
C1_Witness ==
    /\ nsends > 0
    /\ Len(appended) > LedgerCap
    /\ Len(audit_logs) = LedgerCap

LastN(seq, n) == SubSeq(seq, Len(seq) - n + 1, Len(seq))

Min(a, b) == IF a <= b THEN a ELSE b

\* C2: after n appends get_logs returns the last min(n, 100) appended entries in
\* insertion order, most recent last, whatever their timestamps; retained entries are
\* neither modified nor reordered.
C2_LedgerIsLastAppended ==
    /\ get_logs.logs = LastN(appended, Min(Len(appended), LedgerCap))
    /\ get_logs.count = Min(Len(appended), LedgerCap)

\* the 101st append: the first entry is gone, entries 2..101 are there in order, and
\* the entry dropped was not the one with the oldest timestamp
C2_Witness ==
    /\ Len(appended) = LedgerCap + 1
    /\ nsends > 0
    /\ \A i \in 1..LedgerCap : get_logs.logs[i] = appended[i + 1]
    /\ \A i \in 1..LedgerCap : get_logs.logs[i] # appended[1]
    /\ appended[1].timestamp > appended[LedgerCap + 1].timestamp

----------------------------------------------------------------------------
(* A2AMessageQueue.send_message (the same code in the Monitoring and in the *)
(* Validation agent)                                                        *)

\* the generated correlation id: agent name, clock second, hash of the payload
\* (the hash kept collision-free: the payload itself)
CorrelationId(agent_name, clock, payload) ==
    [agent |-> agent_name, second |-> clock, hash |-> payload]

\* send_message, lines 57-72: the envelope
BuildMessage(agent_name, target_agent, message_type, payload, correlation_id, clock) ==
    [protocol     |-> "A2A/1.0",
     message_id   |-> IF correlation_id = None
                      THEN CorrelationId(agent_name, clock, payload)
                      ELSE correlation_id,
     from_agent   |-> agent_name,
     to_agent     |-> target_agent,
     message_type |-> message_type,
     timestamp    |-> clock,
     payload      |-> payload,
     headers      |-> [content_type |-> "application/json", priority |-> "normal"]]

\* what requests.post meets: the request reaches the handler; the connection
\* fails (requests.RequestException); the endpoint answers with a non-200 status
PostOutcomes == {"delivered", "network_error", "http_error"}

\* a send_message call in progress
NewCall(a2a_message) ==
    [pc |-> "posted", env |-> a2a_message, attempts |-> 0, outcome |-> "pending",
     ret |-> None, raised |-> FALSE]

\* send_message without its except clause: a connection error or a timeout
\* leaves the call by the exception
Returned_raises(call, outcome) ==
    IF outcome \in {"network_error", "timeout"}
    THEN [call EXCEPT !.pc = "returned", !.outcome = outcome, !.raised = TRUE]
    ELSE [call EXCEPT !.pc = "returned", !.outcome = outcome,
                      !.ret = call.env.message_id]

\* send_message, lines 78, 86, 95: every path returns correlation_id
Returned(call, outcome) ==
    [call EXCEPT !.pc = "returned", !.outcome = outcome, !.ret = call.env.message_id]

\* send_message, lines 74-80: endpoint lookup and the one requests.post
SendStart(a2a_message, target_agent, post) ==
    IF target_agent \notin Endpoints
    THEN Returned(NewCall(a2a_message), "no_endpoint")
    ELSE IF post = "delivered"
    THEN [NewCall(a2a_message) EXCEPT !.attempts = 1]
    ELSE Returned([NewCall(a2a_message) EXCEPT !.attempts = 1], post)

\* send_message, lines 80-95: the response, or the timeout of the post
SendFinish(call, response, timed_out) ==
    IF timed_out THEN Returned(call, "timeout")
    ELSE IF response.status_code = 200
    THEN IF Get(response.body, "status", "None") = "accepted"
         THEN Returned(call, "accepted")
         ELSE Returned(call, "rejected")
    ELSE Returned(call, "http_error")

----------------------------------------------------------------------------
(* The /a2a handlers *)

Rejected(reason) == [status |-> "rejected", reason |-> reason]

Response(agent, message, body) ==
    [by |-> agent, env |-> message, status_code |-> 200, body |-> body]

\* ValidationAgent.process_a2a_message with the addressee check left out
ValidationRejection_no_addressee(message) ==
    IF Get(message, "protocol", "None") # "A2A/1.0"
    THEN Rejected(<<"Unsupported protocol">>)
    ELSE IF Get(message, "message_type", "None") # "consent_validation_request"
    THEN Rejected(<<"Unknown message type: ", Get(message, "message_type", "None")>>)
    ELSE None

\* ValidationAgent.process_a2a_message, lines 173-177 and 185, 198-199
ValidationRejection(message) ==
    IF Get(message, "protocol", "None") # "A2A/1.0"
    THEN Rejected(<<"Unsupported protocol">>)
    ELSE IF Get(message, "to_agent", "None") # "ValidationAgent"
    THEN Rejected(<<"Message not for this agent">>)
    ELSE IF Get(message, "message_type", "None") # "consent_validation_request"
    THEN Rejected(<<"Unknown message type: ", Get(message, "message_type", "None")>>)
    ELSE None

\* AuditAgent.process_a2a_message with the addressee tested before the protocol
AuditRejection_addressee_first(message) ==
    IF Get(message, "to_agent", "None") # "AuditAgent"
    THEN Rejected(<<"Message not for this agent">>)
    ELSE IF Get(message, "protocol", "None") # "A2A/1.0"
    THEN Rejected(<<"Unsupported protocol">>)
    ELSE IF Get(message, "message_type", "None") # "audit_log_request"
    THEN Rejected(<<"Unknown message type: ", Get(message, "message_type", "None")>>)
    ELSE None

\* AuditAgent.process_a2a_message, lines 99-103 and 111, 120-121
AuditRejection(message) ==
    IF Get(message, "protocol", "None") # "A2A/1.0"
    THEN Rejected(<<"Unsupported protocol">>)
    ELSE IF Get(message, "to_agent", "None") # "AuditAgent"
    THEN Rejected(<<"Message not for this agent">>)
    ELSE IF Get(message, "message_type", "None") # "audit_log_request"
    THEN Rejected(<<"Unknown message type: ", Get(message, "message_type", "None")>>)
    ELSE None

\* perform_ai_validation, lines 205-210, in a deployment without GOOGLE_API_KEY:
\* self.client is None and the deterministic strategy answers
perform_ai_validation(trigger_data) == mock_validation(trigger_data)

\* send_to_audit_agent, lines 377-382
AuditPayload(validation_result, trigger_data, clock) ==
    [validation_result |-> validation_result,
     trigger_data      |-> trigger_data,
     source_agent      |-> "ValidationAgent",
     timestamp         |-> clock]

----------------------------------------------------------------------------
(* Spec: one request at a time through Monitoring -> Validation -> Audit,   *)
(* and envelopes posted to /a2a by any other HTTP client                    *)

\* top-level requests per run
MaxSends == 2
\* clock seconds that pass per run
MaxTime == 1

\* the triggers Monitoring sends: the detector's high-value and large-amount
\* triggers
PipeTriggers ==
    { analyze_transaction_for_consent(
          [id |-> "tx1", account_id |-> "1234567890", timestamp |-> 0,
           amount |-> [num |-> am]], 0) : am \in {1200, 7500} }

\* target_agent of send_message: the agents pass "ValidationAgent"; a name
\* outside agent_endpoints has no endpoint
SendTargets == {"ValidationAgent", "DashboardAgent"}

MessageTypes == {"consent_validation_request", "audit_log_request", "status_request"}

\* the payload a client puts in an envelope for the endpoint it posts to
ClientPayload(agent) ==
    IF agent = "ValidationAgent"
    THEN [type |-> "third_party_data_sharing", amount |-> 1200,
          third_party_provider |-> "bank", user_id |-> "user_1000"]
    ELSE [validation_result |-> [decision |-> "REJECT", confidence |-> 40, valid |-> FALSE,
                                 reasoning |-> <<"Consent scope is too broad">>],
          trigger_data |-> [type |-> "other", amount |-> 10, user_id |-> "user_1000"],
          source_agent |-> "Client"]

\* envelopes a client may post: any protocol version, addressee and type
ClientEnvelopes(agent) ==
    { [protocol |-> pr, from_agent |-> "Client", to_agent |-> to, message_type |-> mt,
       timestamp |-> 0, payload |-> ClientPayload(agent)] @@ Opt("message_id", mid) :
      pr \in {"A2A/1.0", "A2A/2.0"}, to \in Endpoints, mt \in MessageTypes,
      mid \in {<<>>, <<[client |-> "req-1"]>>} }

Init ==
    /\ MockIdle
    /\ EngineIdle
    /\ DetectorIdle
    /\ LedgerEmpty
    /\ PipeInit
    /\ QueueIdle

\* no request is in progress
Idle ==
    /\ monCall = None
    /\ valCall = None
    /\ valWork = None
    /\ \A a \in Endpoints : inbox[a] = None
    /\ \A c \in Callers : reply[c] = None

\* the wall clock passes to the next second
Tick ==
    /\ Idle
    /\ now < MaxTime
    /\ now' = now + 1
    /\ UNCHANGED <<queueVars, handlers, mockVars, engineVars, detectorVars, ledgerVars, sent, monCall, valCall, valWork, inbox, reply, nsends>>

\* MonitoringAgent: a2a_queue.send_message(target, 'consent_validation_request', trigger),
\* up to the post (send_to_validation_agent, lines 386-392; send_message, lines 55-80)
MonSend ==
    /\ Idle
    /\ nsends < MaxSends
    /\ \E target \in SendTargets, payload \in PipeTriggers, post \in PostOutcomes :
        LET a2a_message == BuildMessage("MonitoringAgent", target,
                                        "consent_validation_request", payload, None, now)
            call == SendStart(a2a_message, target, post)
        IN  /\ monCall' = call
            /\ sent' = Append(sent, a2a_message)
            /\ inbox' = IF call.pc = "posted"
                        THEN [inbox EXCEPT ![target] =
                                 [env |-> a2a_message, caller |-> "MonitoringAgent"]]
                        ELSE inbox
    /\ nsends' = nsends + 1
    /\ UNCHANGED <<queueVars, handlers, mockVars, engineVars, detectorVars, ledgerVars, now, valCall, valWork, reply>>

\* MonitoringAgent: the post returns (or times out) and send_message returns
MonReturn ==
    /\ monCall # None
    /\ monCall.pc = "posted"
    /\ reply["MonitoringAgent"] # None
    /\ \E timed_out \in BOOLEAN :
           monCall' = SendFinish(monCall, reply["MonitoringAgent"], timed_out)
    /\ reply' = [reply EXCEPT !["MonitoringAgent"] = None]
    /\ UNCHANGED <<queueVars, handlers, mockVars, engineVars, detectorVars, ledgerVars, now, sent, valCall, valWork, inbox, nsends>>

\* MonitoringAgent: send_to_validation_agent logs the id and is done (line 393)
MonDone ==
    /\ monCall # None
    /\ monCall.pc = "returned"
    /\ monCall' = None
    /\ valCall' = None
    /\ UNCHANGED <<queueVars, handlers, mockVars, engineVars, detectorVars, ledgerVars, now, sent, valWork, inbox, reply, nsends>>

\* another HTTP client posts an envelope to an agent's /a2a
ClientPost ==
    /\ Idle
    /\ nsends < MaxSends
    /\ \E agent \in Endpoints :
        \E a2a_message \in ClientEnvelopes(agent) :
           inbox' = [inbox EXCEPT ![agent] = [env |-> a2a_message, caller |-> "Client"]]
    /\ nsends' = nsends + 1
    /\ UNCHANGED <<queueVars, handlers, mockVars, engineVars, detectorVars, ledgerVars, now, sent, monCall, valCall, valWork, reply>>

\* the client has read its response
ClientDone ==
    /\ reply["Client"] # None
    /\ reply' = [reply EXCEPT !["Client"] = None]
    /\ valCall' = None
    /\ UNCHANGED <<queueVars, handlers, mockVars, engineVars, detectorVars, ledgerVars, now, sent, monCall, valWork, inbox, nsends>>

\* ValidationAgent.process_a2a_message, lines 170-190: the checks; on a
\* consent_validation_request the validation and send_to_audit_agent up to the post
ValHandle ==
    /\ inbox["ValidationAgent"] # None
    /\ valWork = None
    /\ LET message   == inbox["ValidationAgent"].env
           caller    == inbox["ValidationAgent"].caller
           rejection == ValidationRejection(message)
       IN  IF rejection # None
           THEN /\ reply' = [reply EXCEPT ![caller] =
                                Response("ValidationAgent", message, rejection)]
                /\ inbox' = [inbox EXCEPT !["ValidationAgent"] = None]
                /\ UNCHANGED <<sent, valCall, valWork>>
           ELSE LET message_id        == Get(message, "message_id", None)
                    payload           == Get(message, "payload", EmptyDict)
                    validation_result == perform_ai_validation(payload)
                    audit_message     ==
                        BuildMessage("ValidationAgent", "AuditAgent", "audit_log_request",
                                     AuditPayload(validation_result, payload, now),
                                     message_id, now)
                IN  \E post \in PostOutcomes :
                        LET call == SendStart(audit_message, "AuditAgent", post)
                        IN  /\ valCall' = call
                            /\ sent' = Append(sent, audit_message)
                            /\ valWork' = [env |-> message, caller |-> caller,
                                           result |-> validation_result]
                            /\ inbox' = [inbox EXCEPT
                                   !["ValidationAgent"] = None,
                                   !["AuditAgent"] =
                                       IF call.pc = "posted"
                                       THEN [env |-> audit_message, caller |-> "ValidationAgent"]
                                       ELSE None]
                            /\ UNCHANGED reply
    /\ UNCHANGED <<queueVars, handlers, mockVars, engineVars, detectorVars, ledgerVars, now, monCall, nsends>>

\* ValidationAgent: the post to the Audit agent returns (or times out) and
\* send_message returns (validation_agent.py, lines 54-69)
ValSendReturn ==
    /\ valWork # None
    /\ valCall.pc = "posted"
    /\ reply["ValidationAgent"] # None
    /\ \E timed_out \in BOOLEAN :
           valCall' = SendFinish(valCall, reply["ValidationAgent"], timed_out)
    /\ reply' = [reply EXCEPT !["ValidationAgent"] = None]
    /\ UNCHANGED <<queueVars, handlers, mockVars, engineVars, detectorVars, ledgerVars, now, sent, monCall, valWork, inbox, nsends>>

\* ValidationAgent.process_a2a_message, lines 192-197: the accepted answer
ValReply ==
    /\ valWork # None
    /\ valCall.pc = "returned"
    /\ reply' = [reply EXCEPT ![valWork.caller] =
                    Response("ValidationAgent", valWork.env,
                             [status           |-> "accepted",
                              message_id       |-> Get(valWork.env, "message_id", None),
                              result           |-> valWork.result,
                              audit_message_id |-> valCall.ret])]
    /\ valWork' = None
    /\ UNCHANGED <<queueVars, handlers, mockVars, engineVars, detectorVars, ledgerVars, now, sent, monCall, valCall, inbox, nsends>>

\* AuditAgent.process_a2a_message, lines 96-121
AudHandle ==
    /\ inbox["AuditAgent"] # None
    /\ LET message   == inbox["AuditAgent"].env
           caller    == inbox["AuditAgent"].caller
           rejection == AuditRejection(message)
       IN  IF rejection # None
           THEN /\ reply' = [reply EXCEPT ![caller] =
                                Response("AuditAgent", message, rejection)]
                /\ UNCHANGED ledgerVars
           ELSE /\ \E save1 \in SaveOutcomes, save2 \in SaveOutcomes :
                       process_audit_log(Get(message, "payload", EmptyDict), save1, save2)
                /\ reply' = [reply EXCEPT ![caller] =
                                Response("AuditAgent", message,
                                         [status     |-> "accepted",
                                          message_id |-> Get(message, "message_id", None),
                                          message    |-> "Audit log recorded via A2A"])]
    /\ inbox' = [inbox EXCEPT !["AuditAgent"] = None]
    /\ UNCHANGED <<queueVars, handlers, mockVars, engineVars, detectorVars, now, sent, monCall, valCall, valWork, nsends>>

Next ==
    \/ Tick
    \/ MonSend
    \/ MonReturn
    \/ MonDone
    \/ ClientPost
    \/ ClientDone
    \/ ValHandle
    \/ ValSendReturn
    \/ ValReply
    \/ AudHandle

Spec == Init /\ [][Next]_vars

----------------------------------------------------------------------------
(* SpecScenario: triggers with a third-party provider sent by Monitoring and *)
(* followed through Validation to the ledger                                 *)

\* triggers as generate_demo_trigger_and_send builds them (monitoring_agent.py,
\* lines 372-381): an amount at and above the high-value threshold, a provider
\* that is a third party or the bank
ScenarioTriggers ==
    { [type |-> "high_value_transaction", amount |-> am, purpose |-> Str_loan,
       third_party_provider |-> pv, user_id |-> "user_1000",
       consent_required |-> TRUE, timestamp |-> 0] :
      am \in {5000, 7500}, pv \in {"FinTechCorp", "bank"} }

\* send_to_validation_agent, lines 386-393, with such a trigger
ScenarioSend ==
    /\ Idle
    /\ nsends < MaxSends
    /\ \E payload \in ScenarioTriggers, post \in PostOutcomes :
        LET a2a_message == BuildMessage("MonitoringAgent", "ValidationAgent",
                                        "consent_validation_request", payload, None, now)
            call == SendStart(a2a_message, "ValidationAgent", post)
        IN  /\ monCall' = call
            /\ sent' = Append(sent, a2a_message)
            /\ inbox' = IF call.pc = "posted"
                        THEN [inbox EXCEPT !["ValidationAgent"] =
                                 [env |-> a2a_message, caller |-> "MonitoringAgent"]]
                        ELSE inbox
    /\ nsends' = nsends + 1
    /\ UNCHANGED <<queueVars, handlers, mockVars, engineVars, detectorVars, ledgerVars, now, valCall, valWork, reply>>

ScenarioNext ==
    \/ ScenarioSend
    \/ MonReturn
    \/ MonDone
    \/ ValHandle
    \/ ValSendReturn
    \/ ValReply
    \/ AudHandle

SpecScenario == Init /\ [][ScenarioNext]_vars

----------------------------------------------------------------------------
(* SpecAudit: the Audit agent serving envelopes on a ledger a previous run   *)
(* left in the file                                                          *)

\* audit payloads whose result carries a reasoning of 26 characters, as the
\* delegated strategy returns it for a one-line answer: approved or rejected,
\* with a confidence of 0.4, 0.6 or 0.8
BriefPayloads ==
    { [validation_result |-> [decision |-> IF v THEN "APPROVE" ELSE "REJECT",
                              valid |-> v, confidence |-> c, risk_level |-> "MEDIUM",
                              reasoning |-> <<"Consent scope is too broad">>,
                              ai_processed |-> TRUE],
       trigger_data      |-> StoredTrigger(0),
       source_agent      |-> "ValidationAgent",
       timestamp         |-> 0] :
      v \in BOOLEAN, c \in {40, 60, 80} }

\* the envelopes posted: audit payloads under a message type the agent handles
\* or one it does not
AuditEnvelopes ==
    { BuildMessage("ValidationAgent", "AuditAgent", mt, payload, None, 0) :
      mt \in {"audit_log_request", "status_request"},
      payload \in LedgerPayloads }

\* an envelope arrives at POST /a2a of the Audit agent
AuditPost ==
    /\ inbox["AuditAgent"] = None
    /\ reply["Client"] = None
    /\ nsends < MaxAppends
    /\ \E a2a_message \in AuditEnvelopes :
           inbox' = [inbox EXCEPT !["AuditAgent"] = [env |-> a2a_message, caller |-> "Client"]]
    /\ nsends' = nsends + 1
    /\ UNCHANGED <<queueVars, handlers, mockVars, engineVars, detectorVars, ledgerVars, now, sent, monCall, valCall, valWork, reply>>

AuditNext ==
    \/ AuditPost
    \/ AudHandle
    \/ ClientDone

SpecAudit == LedgerInit /\ [][AuditNext]_vars

\* the Validation agent forwards a result with a brief reasoning
NotesPost ==
    /\ inbox["AuditAgent"] = None
    /\ reply["Client"] = None
    /\ nsends < MaxAppends
    /\ \E payload \in BriefPayloads :
           inbox' = [inbox EXCEPT !["AuditAgent"] =
                        [env |-> BuildMessage("ValidationAgent", "AuditAgent",
                                              "audit_log_request", payload, None, 0),
                         caller |-> "Client"]]
    /\ nsends' = nsends + 1
    /\ UNCHANGED <<queueVars, handlers, mockVars, engineVars, detectorVars, ledgerVars, now, sent, monCall, valCall, valWork, reply>>

NotesNext ==
    \/ NotesPost
    \/ AudHandle
    \/ ClientDone

\* the Audit agent on an empty ledger, serving results with a brief reasoning
SpecNotes == Init /\ [][NotesNext]_vars

----------------------------------------------------------------------------
(* SpecHttp: the HTTP boundary of the two agents: what a client posts to    *)
(* /a2a, /validate and /audit, with and without a usable JSON body          *)

\* the routes that read a request body
Routes ==
    { [agent |-> "ValidationAgent", rule |-> "/validate"],
      [agent |-> "ValidationAgent", rule |-> "/a2a"],
      [agent |-> "AuditAgent",      rule |-> "/audit"],
      [agent |-> "AuditAgent",      rule |-> "/a2a"] }

\* the JSON document a client means to send to a route
WellFormed(route) ==
    IF route.rule = "/a2a"
    THEN BuildMessage("Client", route.agent,
                      IF route.agent = "ValidationAgent"
                      THEN "consent_validation_request" ELSE "audit_log_request",
                      ClientPayload(route.agent), None, 0)
    ELSE ClientPayload(route.agent)

\* request bodies: none at all, bytes that are not JSON, the empty object, and
\* the document the route expects
Bodies(route) ==
    { [kind |-> "missing"], [kind |-> "unparseable"],
      [kind |-> "json", value |-> EmptyDict],
      [kind |-> "json", value |-> WellFormed(route)] }

\* request.get_json() with its defaults (force=False, silent=False): the parsed
\* document; None for a request without a JSON content type, or in newer
\* releases of the framework an UnsupportedMediaType exception; a BadRequest
\* exception when the body does not parse
get_json(body) ==
    CASE body.kind = "json"        -> { [kind |-> "value", value |-> body.value] }
      [] body.kind = "missing"     -> { [kind |-> "none"],
                                        [kind |-> "raise", exception |-> "UnsupportedMediaType"],
                                        [kind |-> "raise", exception |-> "BadRequest"] }
      [] body.kind = "unparseable" -> { [kind |-> "raise", exception |-> "BadRequest"] }

\* `not data` of the handlers: None and the empty dict are falsy
Falsy(got) == got.kind = "none" \/ (got.kind = "value" /\ DOMAIN got.value = {})

\* validate_consent 149-151, handle_a2a_message 166-168, receive_audit 75-77,
\* audit handle_a2a_message 92-94: except Exception answers 500, and the
\* exceptions get_json raises are Exceptions
status_of(exception) == 500

\* the response to the client; request is the body it answers
HttpResponse(route, body, status_code, json) ==
    [by |-> route.agent, env |-> [request |-> body, rule |-> route.rule],
     status_code |-> status_code, body |-> json]

\* jsonify({"error": ...}), 400 of the four handlers
NoData(route) ==
    CASE route.rule = "/validate" -> [error |-> "No trigger data provided"]
      [] route.rule = "/audit"    -> [error |-> "No audit data provided"]
      [] OTHER                    -> [error |-> "No A2A message provided"]

\* a POST reaches a handler: validate_consent 133-152, handle_a2a_message
\* 154-168, receive_audit 64-77, audit handle_a2a_message 79-94
HttpPost ==
    /\ Idle
    /\ nsends < MaxSends
    /\ nsends' = nsends + 1
    /\ \E route \in Routes :
       \E body \in Bodies(route) :
       \E got \in get_json(body) :
          IF got.kind = "raise"
          THEN /\ reply' = [reply EXCEPT !["Client"] =
                               HttpResponse(route, body, status_of(got.exception),
                                            [error |-> got.exception])]
               /\ UNCHANGED <<ledgerVars, sent, valCall, valWork, inbox>>
          ELSE IF Falsy(got)
          THEN /\ reply' = [reply EXCEPT !["Client"] =
                               HttpResponse(route, body, 400, NoData(route))]
               /\ UNCHANGED <<ledgerVars, sent, valCall, valWork, inbox>>
          ELSE IF route.rule = "/a2a"
          THEN /\ inbox' = [inbox EXCEPT ![route.agent] =
                               [env |-> got.value, caller |-> "Client"]]
               /\ UNCHANGED <<ledgerVars, sent, valCall, valWork, reply>>
          ELSE IF route.rule = "/audit"
          THEN /\ \E save1 \in SaveOutcomes, save2 \in SaveOutcomes :
                      process_audit_log(got.value, save1, save2)
               /\ reply' = [reply EXCEPT !["Client"] =
                               HttpResponse(route, body, 200, [status |-> "received"])]
               /\ UNCHANGED <<sent, valCall, valWork, inbox>>
          ELSE LET validation_result == perform_ai_validation(got.value)
                   audit_message     ==
                       BuildMessage("ValidationAgent", "AuditAgent", "audit_log_request",
                                    AuditPayload(validation_result, got.value, now),
                                    None, now)
               IN  \E post \in PostOutcomes :
                       LET call == SendStart(audit_message, "AuditAgent", post)
                       IN  /\ valCall' = call
                           /\ sent' = Append(sent, audit_message)
                           /\ valWork' = [env |-> [request |-> body, rule |-> route.rule],
                                          caller |-> "Client",
                                          result |-> validation_result, direct |-> TRUE]
                           /\ inbox' = [inbox EXCEPT !["AuditAgent"] =
                                           IF call.pc = "posted"
                                           THEN [env |-> audit_message,
                                                 caller |-> "ValidationAgent"]
                                           ELSE None]
                           /\ UNCHANGED <<ledgerVars, reply>>
    /\ UNCHANGED <<queueVars, handlers, mockVars, engineVars, detectorVars, now, monCall>>

\* validate_consent, line 147: jsonify(validation_result) once
\* send_to_audit_agent is back
ValidateReply ==
    /\ valWork # None
    /\ "direct" \in DOMAIN valWork
    /\ valCall.pc = "returned"
    /\ reply' = [reply EXCEPT !["Client"] =
                    [by |-> "ValidationAgent", env |-> valWork.env,
                     status_code |-> 200, body |-> valWork.result]]
    /\ valWork' = None
    /\ UNCHANGED <<queueVars, handlers, mockVars, engineVars, detectorVars, ledgerVars, now, sent, monCall, valCall, inbox, nsends>>

\* handle_a2a_message, line 164: jsonify(response) of process_a2a_message
A2AReply ==
    /\ "direct" \notin DOMAIN valWork
    /\ ValReply

HttpNext ==
    \/ HttpPost
    \/ ClientDone
    \/ ValHandle
    \/ ValSendReturn
    \/ ValidateReply
    \/ A2AReply
    \/ AudHandle

SpecHttp == Init /\ [][HttpNext]_vars

----------------------------------------------------------------------------
(* ValidationAgent: the delegated strategy and its response parser *)

UpperChar(c) ==
    IF \E i \in DOMAIN LowerChars : LowerChars[i] = c
    THEN UpperChars[CHOOSE i \in DOMAIN LowerChars : LowerChars[i] = c]
    ELSE c

\* str.upper()
Upper(s) == [i \in DOMAIN s |-> UpperChar(s[i])]

\* the characters str.strip() removes
Whitespace == {" ", "\t", "\n", "\r"}

RECURSIVE LStrip(_)
LStrip(s) == IF s # <<>> /\ s[1] \in Whitespace THEN LStrip(Tail(s)) ELSE s

RECURSIVE RStrip(_)
RStrip(s) ==
    IF s # <<>> /\ s[Len(s)] \in Whitespace THEN RStrip(SubSeq(s, 1, Len(s) - 1)) ELSE s

\* str.strip()
Strip(s) == LStrip(RStrip(s))

\* str.startswith(prefix)
StartsWith(s, prefix) ==
    /\ Len(s) >= Len(prefix)
    /\ SubSeq(s, 1, Len(prefix)) = prefix

\* index of the first occurrence of character c in s, 0 when there is none
FirstIndex(s, c) ==
    IF \E i \in DOMAIN s : s[i] = c
    THEN CHOOSE i \in DOMAIN s : s[i] = c /\ \A j \in 1..(i - 1) : s[j] # c
    ELSE 0

\* str.split(sep) on a one-character separator
RECURSIVE Split(_, _)
Split(s, sep) ==
    LET i == FirstIndex(s, sep)
    IN  IF i = 0 THEN <<s>>
        ELSE <<SubSeq(s, 1, i - 1)>> \o Split(SubSeq(s, i + 1, Len(s)), sep)

\* line.split(':', 1)[1] for a line that holds a colon
AfterFirstColon(line) == SubSeq(line, FirstIndex(line, ":") + 1, Len(line))

\* the spelling of the texts used below, character by character
Spell(w) ==
    CASE w = "APPROVE" -> <<"A","P","P","R","O","V","E">>
      [] w = "REJECT" -> <<"R","E","J","E","C","T">>
      [] w = "approve" -> <<"a","p","p","r","o","v","e">>
      [] w = "Reject" -> <<"R","e","j","e","c","t">>
      [] w = "MAYBE" -> <<"M","A","Y","B","E">>
      [] w = "APPROVE: YES" -> <<"A","P","P","R","O","V","E",":"," ","Y","E","S">>
      [] w = "LOW" -> <<"L","O","W">>
      [] w = "MEDIUM" -> <<"M","E","D","I","U","M">>
      [] w = "HIGH" -> <<"H","I","G","H">>
      [] w = "high" -> <<"h","i","g","h">>
      [] w = "CRITICAL" -> <<"C","R","I","T","I","C","A","L">>
      [] w = "0.85" -> <<"0",".","8","5">>
      [] w = "0.3" -> <<"0",".","3">>
      [] w = "1" -> <<"1">>
      [] w = "1.0" -> <<"1",".","0">>
      [] w = "5.0" -> <<"5",".","0">>
      [] w = "-0.3" -> <<"-","0",".","3">>
      [] w = "-2" -> <<"-","2">>
      [] w = "abc" -> <<"a","b","c">>
      [] w = "nan" -> <<"n","a","n">>
      [] w = "inf" -> <<"i","n","f">>
      [] w = "-inf" -> <<"-","i","n","f">>
      [] w = "85%" -> <<"8","5","%">>
      [] w = "Scope is narrow" -> <<"S","c","o","p","e"," ","i","s"," ","n","a","r","r","o","w">>
      [] w = "SCOPE IS NARROW" -> <<"S","C","O","P","E"," ","I","S"," ","N","A","R","R","O","W">>
      [] w = "Sorry, I cannot assess this request." -> <<"S","o","r","r","y",","," ","I"," ","c","a","n","n","o","t"," ","a","s","s","e","s","s"," ","t","h","i","s"," ","r","e","q","u","e","s","t",".">>
      [] w = "DECISION:" -> <<"D","E","C","I","S","I","O","N",":">>
      [] w = "CONFIDENCE:" -> <<"C","O","N","F","I","D","E","N","C","E",":">>
      [] w = "REASONING:" -> <<"R","E","A","S","O","N","I","N","G",":">>
      [] w = "RISK_LEVEL:" -> <<"R","I","S","K","_","L","E","V","E","L",":">>
      [] w = "decision:" -> <<"d","e","c","i","s","i","o","n",":">>
      [] w = "Confidence:" -> <<"C","o","n","f","i","d","e","n","c","e",":">>
      [] w = "risk_level:" -> <<"r","i","s","k","_","l","e","v","e","l",":">>
      [] w = "" -> <<>>

\* the texts the parser's results are compared with
Words == {"APPROVE", "REJECT", "approve", "Reject", "MAYBE", "APPROVE: YES", "LOW", "MEDIUM", "HIGH", "high", "CRITICAL", "0.85", "0.3", "1", "1.0", "5.0", "-0.3", "-2", "abc", "nan", "inf", "-inf", "85%", "Scope is narrow", "SCOPE IS NARROW", "Sorry, I cannot assess this request.", "DECISION:", "CONFIDENCE:", "REASONING:", "RISK_LEVEL:", "decision:", "Confidence:", "risk_level:", ""}

\* a text as a value of the result: the word it spells
AsWord(chars) ==
    IF \E w \in Words : Spell(w) = chars
    THEN CHOOSE w \in Words : Spell(w) = chars
    ELSE "(another text)"

Digits == <<"0","1","2","3","4","5","6","7","8","9">>

IsDigit(c) == \E i \in DOMAIN Digits : Digits[i] = c

DigitValue(c) == (CHOOSE i \in DOMAIN Digits : Digits[i] = c) - 1

\* the value of a sequence of digits
RECURSIVE Decimal(_)
Decimal(ds) ==
    IF ds = <<>> THEN 0 ELSE 10 * Decimal(SubSeq(ds, 1, Len(ds) - 1)) + DigitValue(ds[Len(ds)])

\* float(text), the value in hundredths: [kind |-> "num", v |-> hundredths],
\* [kind |-> "nan"], [kind |-> "inf", v |-> sign], or ValueError.  The forms
\* accepted are an optional sign, digits, and an optional point with at most two
\* more digits, besides nan and inf.
ValueError == [kind |-> "ValueError"]

float(text) ==
    LET t        == Lower(Strip(text))
        signed   == t # <<>> /\ t[1] \in {"+", "-"}
        sign     == IF signed /\ t[1] = "-" THEN -1 ELSE 1
        body     == IF signed THEN Tail(t) ELSE t
        point    == FirstIndex(body, ".")
        whole    == IF point = 0 THEN body ELSE SubSeq(body, 1, point - 1)
        fraction == IF point = 0 THEN <<>> ELSE SubSeq(body, point + 1, Len(body))
        allDigits(ds) == \A i \in DOMAIN ds : IsDigit(ds[i])
    IN  IF body = <<"n","a","n">> THEN [kind |-> "nan"]
        ELSE IF body = <<"i","n","f">> THEN [kind |-> "inf", v |-> sign]
        ELSE IF /\ allDigits(whole) /\ allDigits(fraction)
                /\ Len(whole) + Len(fraction) > 0
                /\ Len(fraction) <= 2
        THEN [kind |-> "num",
              v |-> sign * (100 * Decimal(whole)
                            + (IF Len(fraction) = 1 THEN 10 ELSE 1) * Decimal(fraction))]
        ELSE ValueError

\* a < b on floats: every comparison with nan is false
FloatLess(a, b) ==
    /\ a.kind # "nan" /\ b.kind # "nan"
    /\ IF a.kind = "inf" THEN a.v < 0 /\ ~(b.kind = "inf" /\ b.v < 0)
       ELSE IF b.kind = "inf" THEN b.v > 0
       ELSE a.v < b.v

\* min(a, b) and max(a, b) of Python: the first argument unless the second is
\* strictly smaller (larger)
PyMin(a, b) == IF FloatLess(b, a) THEN b ELSE a
PyMax(a, b) == IF FloatLess(a, b) THEN b ELSE a

\* the clamp without its lower end
Clamp_upper_only(confidence) == PyMin([kind |-> "num", v |-> 100], confidence)

\* max(0.0, min(1.0, confidence)), line 293
Clamp(confidence) ==
    PyMax([kind |-> "num", v |-> 0], PyMin([kind |-> "num", v |-> 100], confidence))

\* the part of the line after its last colon
AfterLastColon(line) ==
    LET last == CHOOSE i \in DOMAIN line : line[i] = ":" /\ \A j \in (i + 1)..Len(line) : line[j] # ":"
    IN  SubSeq(line, last + 1, Len(line))

\* the value of a labelled line: line.split(':', 1)[1]
LabelValue(line) == AfterFirstColon(line)

\* valid for every decision that begins with APPROVE
IsValid_prefix(decision) == StartsWith(decision, Spell("APPROVE"))

\* line 306: "valid": decision == "APPROVE"
IsValid(decision) == decision = Spell("APPROVE")

\* _parse_ai_response, lines 281-284: the values before any line is read
ParseDefaults(ai_response) ==
    [decision   |-> Spell("REJECT"),
     confidence |-> 50,
     reasoning  |-> ai_response,
     risk_level |-> Spell("MEDIUM")]

\* _parse_ai_response, lines 287-299: one turn of the loop over the lines
ParseLine(acc, raw) ==
    LET line == Strip(raw)
    IN  IF StartsWith(line, Spell("DECISION:"))
        THEN [acc EXCEPT !.decision = Upper(Strip(LabelValue(line)))]
        ELSE IF StartsWith(line, Spell("CONFIDENCE:"))
        THEN LET confidence == float(Strip(LabelValue(line)))
             IN  [acc EXCEPT !.confidence = IF confidence.kind = "ValueError"
                                            THEN 50
                                            ELSE Clamp(confidence).v]
        ELSE IF StartsWith(line, Spell("REASONING:"))
        THEN [acc EXCEPT !.reasoning = Strip(LabelValue(line))]
        ELSE IF StartsWith(line, Spell("RISK_LEVEL:"))
        THEN [acc EXCEPT !.risk_level = Upper(Strip(LabelValue(line)))]
        ELSE acc

\* the loop of line 286
RECURSIVE ParseLines(_, _)
ParseLines(acc, lines) ==
    IF lines = <<>> THEN acc ELSE ParseLines(ParseLine(acc, Head(lines)), Tail(lines))

\* _parse_ai_response, lines 277-308.  The text operations of the try block
\* raise nothing on a str, so the except clause of line 310 is never entered.
parse_ai_response(ai_response, trigger_data) ==
    LET parsed == ParseLines(ParseDefaults(ai_response), Split(ai_response, "\n"))
    IN  [decision     |-> AsWord(parsed.decision),
         confidence   |-> parsed.confidence,
         reasoning    |-> parsed.reasoning,
         risk_level   |-> AsWord(parsed.risk_level),
         valid        |-> IsValid(parsed.decision),
         ai_processed |-> TRUE]

\* how a call ends: with a value or with an exception
Return(value) == [raised |-> FALSE, value |-> value]
Raise(error)  == [raised |-> TRUE, error |-> error]

\* A payload as it arrives from JSON: amount and purpose carry their type,
\* [num |-> n] a number and [text |-> t] a text.
\* line 322: amount > 5000 raises TypeError when amount is no number
AmountRaises(payload) ==
    "amount" \in DOMAIN payload /\ "num" \notin DOMAIN payload.amount

\* line 331: purpose.lower() raises AttributeError when purpose is no text
PurposeRaises(payload) ==
    "purpose" \in DOMAIN payload /\ "text" \notin DOMAIN payload.purpose

\* the payload of a well-typed trigger, as _mock_validation reads it
Untagged(payload) ==
    [k \in DOMAIN payload |->
        IF k = "amount" THEN payload[k].num
        ELSE IF k = "purpose" THEN payload[k].text
        ELSE payload[k]]

\* _mock_validation called on a payload of any types, lines 314-372
mock_validation_call(payload) ==
    IF AmountRaises(payload) THEN Raise("TypeError")
    ELSE IF PurposeRaises(payload) THEN Raise("AttributeError")
    ELSE Return(mock_validation(Untagged(payload)))

\* what client.models.generate_content and response.text can do: an API error,
\* a timeout, a response without text, a response with text
GenerateKinds == {"error", "timeout", "no_text", "text"}

\* perform_ai_validation with a fallback that keeps the mark of the delegated strategy
perform_ai_validation_call_marked(has_client, generate, payload) ==
    IF has_client /\ generate.kind = "text"
    THEN Return(parse_ai_response(Strip(generate.text), payload))
    ELSE LET fallback == mock_validation_call(payload)
         IN  IF fallback.raised \/ ~has_client THEN fallback
             ELSE Return([fallback.value EXCEPT !.ai_processed = TRUE])

\* perform_ai_validation, lines 205-232: without a client the deterministic
\* strategy; with one, the parsed response, and on any exception of the call
\* the deterministic strategy, whose own exception leaves the method
perform_ai_validation_call(has_client, generate, payload) ==
    IF ~has_client THEN mock_validation_call(payload)
    ELSE IF generate.kind = "text"
    THEN Return(parse_ai_response(Strip(generate.text), payload))
    ELSE mock_validation_call(payload)

----------------------------------------------------------------------------
(* SpecEngine: one decision-engine invocation *)

NewLine == <<"\n">>

\* a labelled line: indentation, label, blank, value
Line(indent, label, value) == indent \o Spell(label) \o <<" ">> \o Spell(value)

DecisionLines ==
    {<<>>} \cup
    { <<Line(<<>>, "DECISION:", v)>> : v \in {"APPROVE", "approve", "Reject", "MAYBE", "APPROVE: YES"} }
    \cup { <<Line(<<" ", " ">>, "DECISION:", "REJECT")>>,
           <<Line(<<>>, "decision:", "APPROVE")>>,
           <<Line(<<>>, "DECISION:", "REJECT"), Line(<<>>, "DECISION:", "APPROVE")>> }

ConfidenceLines ==
    {<<>>} \cup
    { <<Line(<<>>, "CONFIDENCE:", v)>> : v \in {"0.85", "1", "5.0", "-0.3", "abc", "nan", "-inf", "85%"} }
    \cup { <<Line(<<>>, "Confidence:", "0.3")>>,
           <<Line(<<>>, "CONFIDENCE:", "0.3"), Line(<<>>, "CONFIDENCE:", "abc")>> }

RiskLines ==
    {<<>>} \cup
    { <<Line(<<>>, "RISK_LEVEL:", v)>> : v \in {"LOW", "high", "CRITICAL"} }
    \cup { <<Line(<<>>, "risk_level:", "HIGH")>> }

ReasoningLines ==
    { <<>>, <<Line(<<>>, "REASONING:", "Scope is narrow")>>,
      <<Spell("Sorry, I cannot assess this request.")>> }

\* '\n'.join(lines)
RECURSIVE JoinLines(_)
JoinLines(lines) ==
    IF lines = <<>> THEN <<>>
    ELSE IF Len(lines) = 1 THEN lines[1]
    ELSE lines[1] \o NewLine \o JoinLines(Tail(lines))

\* response texts: the four parts in the order the prompt asks for, each
\* possibly missing or malformed, the whole followed by a line break
Responses ==
    { JoinLines(d \o c \o r \o k) \o NewLine :
        d \in DecisionLines, c \in ConfidenceLines, r \in ReasoningLines, k \in RiskLines }

GenerateOutcomes ==
    { [kind |-> k] : k \in GenerateKinds \ {"text"} }
    \cup { [kind |-> "text", text |-> t] : t \in Responses }

\* trigger payloads of the engine, well typed or not
EnginePayloads ==
    { [type |-> "high_value_transaction", amount |-> [num |-> 7500],
       third_party_provider |-> "bank", user_id |-> "user_1000"],
      [type |-> "third_party_data_sharing", amount |-> [num |-> 1200],
       purpose |-> [text |-> Str_Intl_Transfer], user_id |-> "user_1000"],
      [type |-> "other", user_id |-> "user_1000"],
      [type |-> "high_value_transaction", amount |-> [text |-> "abc"],
       third_party_provider |-> "bank", user_id |-> "user_1000"],
      [type |-> "other", amount |-> [num |-> 100], purpose |-> [num |-> 123],
       user_id |-> "user_1000"] }

EngineInit ==
    /\ trigger \in EnginePayloads
    /\ result = None
    /\ client \in BOOLEAN
    /\ generated \in GenerateOutcomes
    /\ ai_calls = 0
    /\ DetectorIdle
    /\ LedgerEmpty
    /\ PipeInit
    /\ QueueIdle

\* ValidationAgent.perform_ai_validation applied to the trigger
PerformAiValidation ==
    /\ result = None
    /\ result' = perform_ai_validation_call(client, generated, trigger)
    /\ ai_calls' = IF client THEN ai_calls + 1 ELSE ai_calls
    /\ UNCHANGED <<queueVars, handlers, trigger, client, generated, detectorVars, ledgerVars, pipeVars>>

EngineNext == PerformAiValidation

SpecEngine == EngineInit /\ [][EngineNext]_vars

----------------------------------------------------------------------------
(* MonitoringAgent: the detector's cycle *)

\* the seen-count that follows the batch size whatever it is
NextCount_latest(current_tx_count, last) == current_tx_count

\* detect_consent_triggers, lines 225-229: the seen-count after a batch
NextCount(current_tx_count, last) ==
    IF current_tx_count > last THEN current_tx_count ELSE last

\* lines 225-228: transactions[-new_transaction_count:], or [] when the batch
\* is not longer than the seen-count
NewTransactions(batch, last) ==
    IF Len(batch) > last
    THEN SubSeq(batch, Len(batch) - (Len(batch) - last) + 1, Len(batch))
    ELSE <<>>

\* lines 232-235: the triggers of the per-record rules over the whole batch
RECURSIVE RecordTriggers(_, _)
RecordTriggers(batch, clock) ==
    IF batch = <<>> THEN <<>>
    ELSE LET trigger_1 == analyze_transaction_for_consent(Head(batch), clock)
         IN  (IF trigger_1 = None THEN <<>> ELSE <<trigger_1>>)
             \o RecordTriggers(Tail(batch), clock)

\* lines 240-245: the accounts of the new records, in order of first appearance
RECURSIVE AccountsOf(_)
AccountsOf(txs) ==
    IF txs = <<>> THEN <<>>
    ELSE LET rest    == AccountsOf(SubSeq(txs, 1, Len(txs) - 1))
             account == Get(txs[Len(txs)], "account_id", "unknown")
         IN  IF \E i \in DOMAIN rest : rest[i] = account THEN rest
             ELSE Append(rest, account)

\* account_activity[account]: the new records of the account
ActivityOf(txs, account) ==
    SelectSeq(txs, LAMBDA tx : Get(tx, "account_id", "unknown") = account)

\* lines 248-257: one review trigger per account with 3 or more new records
ReviewTriggers(new_transactions, clock) ==
    LET accounts == AccountsOf(new_transactions)
        busy     == SelectSeq(accounts,
                              LAMBDA a : Len(ActivityOf(new_transactions, a)) >= 3)
    IN  [i \in DOMAIN busy |->
            [type              |-> "account_activity_review",
             user_id           |-> busy[i],
             transaction_count |-> Len(ActivityOf(new_transactions, busy[i])),
             timestamp         |-> clock,
             reason            |-> <<"Multiple transactions detected - consent review required",
                                     busy[i]>>]]

\* a detector whose review rule does not look at the per-record triggers
detect_consent_triggers_uncoordinated(batch, last, clock) ==
    IF batch = <<>> THEN [triggers |-> <<>>, last_transaction_count |-> last]
    ELSE [triggers |-> RecordTriggers(batch, clock)
                       \o ReviewTriggers(NewTransactions(batch, last), clock),
          last_transaction_count |-> NextCount(Len(batch), last)]

\* a detector that applies the per-record rules to the new records only
detect_consent_triggers_new_only(batch, last, clock) ==
    IF batch = <<>> THEN [triggers |-> <<>>, last_transaction_count |-> last]
    ELSE LET new_transactions == NewTransactions(batch, last)
             found            == RecordTriggers(new_transactions, clock)
         IN  [triggers |-> IF found = <<>> /\ new_transactions # <<>>
                           THEN ReviewTriggers(new_transactions, clock)
                           ELSE found,
              last_transaction_count |-> NextCount(Len(batch), last)]

\* detect_consent_triggers, lines 214-261: the triggers returned and the
\* seen-count left behind
detect_consent_triggers(batch, last, clock) ==
    IF batch = <<>> THEN [triggers |-> <<>>, last_transaction_count |-> last]
    ELSE LET new_transactions == NewTransactions(batch, last)
             found            == RecordTriggers(batch, clock)
         IN  [triggers |-> IF found = <<>> /\ new_transactions # <<>>
                           THEN ReviewTriggers(new_transactions, clock)
                           ELSE found,
              last_transaction_count |-> NextCount(Len(batch), last)]

----------------------------------------------------------------------------
(* SpecDetector: monitoring cycles over a growing transaction history *)

MaxCycles == 3

AccountA == "1234567890"
AccountB == "0987654321"
AccountC == "1111111111"

\* an activity record as poll_transactions hands it on
Record(id, account, amount) ==
    [id |-> id, account_id |-> account, timestamp |-> 0, amount |-> amount]

Quiet(id, account) == Record(id, account, [num |-> 500])

\* a record without the amount key
NoAmount(id, account) == [id |-> id, account_id |-> account, timestamp |-> 0]

Abroad(record) ==
    record @@ [from_routing_num |-> "883745000", to_routing_num |-> "123456789"]

\* five records below every threshold
QuietPrior ==
    <<Quiet(1, AccountA), Quiet(2, AccountA), Quiet(3, AccountB),
      Quiet(4, AccountB), Quiet(5, AccountC)>>

\* five records of which the first is above 1000
LoudPrior ==
    <<Record(1, AccountA, [num |-> 1200])>> \o SubSeq(QuietPrior, 2, 5)

\* transaction histories; a batch is what a history holds at some moment
Histories ==
    { QuietPrior \o <<Quiet(6, AccountA), Quiet(7, AccountA), Quiet(8, AccountA)>>,
      LoudPrior \o <<Quiet(6, AccountA), Quiet(7, AccountA), Quiet(8, AccountA)>>,
      QuietPrior \o <<Quiet(6, AccountA), Quiet(7, AccountB), Quiet(8, AccountA),
                      Quiet(9, AccountB), Quiet(10, AccountA), Quiet(11, AccountB)>>,
      QuietPrior \o <<Quiet(6, AccountA), Quiet(7, AccountA), Quiet(8, AccountB)>>,
      <<Abroad(Record(1, AccountA, [num |-> 7500])), Abroad(Quiet(2, AccountB)),
        Record(3, AccountA, [num |-> -7500]), Abroad(Record(4, AccountC, [text |-> "n/a"])),
        Record(5, AccountB, [num |-> 5000]), Abroad(Record(6, AccountB, [num |-> -1200])),
        Record(7, AccountC, [num |-> 1000]), Record(8, AccountC, [num |-> 1001])>>,
      <<Abroad(NoAmount(1, AccountA)), Abroad(Record(2, AccountB, [text |-> "n/a"])),
        NoAmount(3, AccountC), Record(4, AccountA, [num |-> 1200]), Quiet(5, AccountB)>> }

Batches ==
    UNION { { SubSeq(h, 1, n) : n \in {0, 2, 5, 8, 11} \cap (0..Len(h)) } : h \in Histories }

DetectorInit ==
    /\ DetectorIdle
    /\ MockIdle
    /\ EngineIdle
    /\ LedgerEmpty
    /\ PipeInit
    /\ QueueIdle

\* generate_demo_trigger_and_send, lines 345-381: the trigger made up when
\* polling failed; random.randint(100, 10000) at its two ends
DemoTriggers ==
    { [type |-> ty, amount |-> am, purpose |-> "loan_application",
       third_party_provider |-> "FinTechCorp", user_id |-> "user_1000",
       data_scope |-> <<"transactions", "balance">>, consent_required |-> TRUE,
       timestamp |-> 0] :
      ty \in {"third_party_sharing", "high_value_transaction",
              "international_transfer", "account_review"},
      am \in {100, 10000} }

\* process_cycle, lines 319-339, when both polls returned data:
\* detect_consent_triggers on the batch, every trigger sent to Validation
DetectCycle ==
    /\ Len(seen_sizes) < MaxCycles
    /\ \E batch \in Batches :
         LET out == detect_consent_triggers(batch, last_transaction_count, now)
         IN  /\ transactions' = batch
             /\ triggers' = out.triggers
             /\ last_transaction_count' = out.last_transaction_count
             /\ seen_sizes' = Append(seen_sizes, Len(batch))
             /\ outbox' = out.triggers
    /\ UNCHANGED <<queueVars, handlers, mockVars, engineVars, ledgerVars, pipeVars>>

\* process_cycle, lines 340-343, when a poll returned None: the detector is
\* not called and one demo trigger is sent
DemoCycle ==
    /\ \E demo \in DemoTriggers : outbox' = <<demo>>
    /\ outbox' # outbox
    /\ UNCHANGED <<last_transaction_count, transactions, triggers, seen_sizes>>
    /\ UNCHANGED <<queueVars, handlers, mockVars, engineVars, ledgerVars, pipeVars>>

DetectorNext == DetectCycle \/ DemoCycle

SpecDetector == DetectorInit /\ [][DetectorNext]_vars

----------------------------------------------------------------------------
(* SpecPolling: monitoring cycles whose batch poll_transactions builds from *)
(* the histories of the monitored accounts                                  *)

\* polls per run that return records
MaxPolls == 2

\* MonitoringAgent.__init__, line 140
monitored_accounts == <<AccountA, AccountB, AccountC>>

\* the records an account may gain between two polls: none, one, three below
\* every threshold, or (the first account) one above 1000
Gains(k, cycle) ==
    LET fresh(j, amount) == Record(100 * cycle + 10 * k + j, monitored_accounts[k], amount)
        quiet(j)         == fresh(j, [num |-> 500])
    IN  CASE k = 1 -> { <<>>, <<quiet(1)>>, <<quiet(1), quiet(2), quiet(3)>>,
                        <<fresh(1, [num |-> 1200])>> }
          [] k = 2 -> { <<>>, <<quiet(1), quiet(2), quiet(3)>> }
          [] k = 3 -> { <<>>, <<quiet(1)>> }

\* poll_transactions, lines 157-188: the lists the service returns for the
\* accounts, one after the other in the order of monitored_accounts
all_transactions(account_transactions) ==
    account_transactions[1] \o account_transactions[2] \o account_transactions[3]

\* process_cycle, lines 311-343: the poll, then the detector and one send per
\* trigger, or the demo trigger when the poll returned None
PollCycle ==
    /\ Len(seen_sizes) < MaxPolls
    /\ \E g1 \in Gains(1, Len(seen_sizes)), g2 \in Gains(2, Len(seen_sizes)),
          g3 \in Gains(3, Len(seen_sizes)) :
         LET gains == <<g1, g2, g3>>
             batch == all_transactions(
                          [k \in 1..3 |->
                              ActivityOf(transactions, monitored_accounts[k]) \o gains[k]])
             out   == detect_consent_triggers(batch, last_transaction_count, now)
         IN  IF batch = <<>>
             THEN /\ \E demo \in DemoTriggers : outbox' = <<demo>>
                  /\ outbox' # outbox
                  /\ UNCHANGED <<last_transaction_count, transactions, triggers, seen_sizes>>
             ELSE /\ transactions' = batch
                  /\ triggers' = out.triggers
                  /\ last_transaction_count' = out.last_transaction_count
                  /\ seen_sizes' = Append(seen_sizes, Len(batch))
                  /\ outbox' = out.triggers
    /\ UNCHANGED <<queueVars, handlers, mockVars, engineVars, ledgerVars, pipeVars>>

PollingNext == PollCycle

SpecPolling == DetectorInit /\ [][PollingNext]_vars

\* run_loop, lines 110-123: process_cycle is called again after every sleep
FairSpecPolling == DetectorInit /\ [][PollingNext]_vars /\ WF_vars(PollCycle)

----------------------------------------------------------------------------
(* SharedMessageQueue: the file-backed queue and its lock marker *)

\* send_message calls per run of the queue specification
MaxQueueSends == 3

\* the agents envelopes are addressed to
QueueAgents == {"ValidationAgent", "AuditAgent"}

\* the messages sent: JSON objects, which json.load reads back as json.dump
\* wrote them
QueueMessages == {[type |-> "consent_validation_request"]}

\* send_message, lines 47-52: the envelope; its id is the clock reading joined
\* with the hash of the message (the hash kept collision-free: the message)
Envelope(agent_name, message, clock) ==
    [to |-> agent_name, payload |-> message, timestamp |-> clock,
     id |-> <<clock, message>>]

\* a marker opened with 'w': the call succeeds whether or not the marker exists
acquire_lock_blind(exists) == TRUE

\* _acquire_lock, lines 28-36: open(lock_file, 'x') creates the marker and the
\* call returns True, or raises FileExistsError and the call returns False
acquire_lock(exists) == ~exists

\* a caller that returns after one failed attempt
after_failed_attempt_give_up == "return"

\* lines 55-56, 80-81: after a failed attempt the caller sleeps and tries again
after_failed_attempt == "sleep"

\* the envelope put in front of the list
Appended_front(queue, msg) == <<msg>> \o queue

\* send_message, line 64: queue.append(msg)
Appended(queue, msg) == Append(queue, msg)

\* get_messages, lines 89-94: the loop over the queue, which sorts each envelope
\* into messages or into remaining_queue
RECURSIVE Sorted(_, _, _, _)
Sorted(queue, agent_name, messages, remaining_queue) ==
    IF queue = <<>>
    THEN [messages |-> messages, remaining_queue |-> remaining_queue]
    ELSE LET msg == Head(queue)
         IN  IF msg.to = agent_name
             THEN Sorted(Tail(queue), agent_name, Append(messages, msg), remaining_queue)
             ELSE Sorted(Tail(queue), agent_name, messages, Append(remaining_queue, msg))

\* a drain that writes back an empty list
Remaining_none(queue, agent_name) == <<>>

\* get_messages, lines 97-98: what is written back
Remaining(queue, agent_name) == Sorted(queue, agent_name, <<>>, <<>>).remaining_queue

\* get_messages, line 106: what is returned
Messages(queue, agent_name) == Sorted(queue, agent_name, <<>>, <<>>).messages

\* a marker that goes away with the process that created it
marker_after_exit_removed(holder, exists) == IF holder THEN FALSE ELSE exists

\* the marker when a process ends: nothing removes it, the finally clause of
\* lines 72-73 and 103-104 does not run
marker_after_exit(holder, exists) == exists

----------------------------------------------------------------------------
(* SpecQueue: processes calling send_message and get_messages on one queue  *)
(* file, one file operation per step                                        *)

QueueInit ==
    /\ MockIdle
    /\ EngineIdle
    /\ DetectorIdle
    /\ LedgerEmpty
    /\ PipeInit
    /\ QueueIdle

QueueRest == <<queue_state, handlers, mockVars, engineVars, detectorVars, ledgerVars, now, sent, monCall, valCall, valWork, inbox, reply>>

\* send_message is called and builds the envelope, lines 45-52; time.time() has
\* advanced since the call before
SendCall(p) ==
    /\ procs[p].pc = "idle"
    /\ nsends < MaxQueueSends
    /\ \E agent_name \in QueueAgents, message \in QueueMessages :
           procs' = [procs EXCEPT ![p] =
                        [NoCall EXCEPT !.pc = "acquire", !.op = "send",
                                       !.agent_name = agent_name,
                                       !.msg = Envelope(agent_name, message, nsends)]]
    /\ nsends' = nsends + 1
    /\ UNCHANGED <<queue_file, lock_file, posted, received, QueueRest>>

\* get_messages is called, lines 75-77
GetCall(p) ==
    /\ procs[p].pc = "idle"
    /\ \E agent_name \in QueueAgents :
           procs' = [procs EXCEPT ![p] =
                        [NoCall EXCEPT !.pc = "acquire", !.op = "get",
                                       !.agent_name = agent_name]]
    /\ UNCHANGED <<queue_file, lock_file, posted, received, nsends, QueueRest>>

\* one _acquire_lock call of the waiting loop, lines 55 and 80
TryLock(p) ==
    /\ procs[p].pc = "acquire"
    /\ IF acquire_lock(lock_file)
       THEN /\ lock_file' = TRUE
            /\ procs' = [procs EXCEPT ![p].pc = "read", ![p].lock = TRUE]
       ELSE /\ lock_file' = lock_file
            /\ procs' = [procs EXCEPT ![p].pc = after_failed_attempt]
    /\ UNCHANGED <<queue_file, posted, received, nsends, QueueRest>>

\* time.sleep(0.1) is over, lines 56 and 81
Wake(p) ==
    /\ procs[p].pc = "sleep"
    /\ procs' = [procs EXCEPT ![p].pc = "acquire"]
    /\ UNCHANGED <<queue_file, lock_file, posted, received, nsends, QueueRest>>

\* the queue file is read, lines 60-61 and 85-86
ReadQueue(p) ==
    /\ procs[p].pc = "read"
    /\ procs' = [procs EXCEPT ![p].pc = "write", ![p].queue = queue_file]
    /\ UNCHANGED <<queue_file, lock_file, posted, received, nsends, QueueRest>>

\* the queue file is written back, lines 64-68 and 89-98
WriteQueue(p) ==
    /\ procs[p].pc = "write"
    /\ IF procs[p].op = "send"
       THEN /\ queue_file' = Appended(procs[p].queue, procs[p].msg)
            /\ posted' = posted (+) SetToBag({procs[p].msg})
            /\ procs' = [procs EXCEPT ![p].pc = "release"]
       ELSE /\ queue_file' = Remaining(procs[p].queue, procs[p].agent_name)
            /\ posted' = posted
            /\ procs' = [procs EXCEPT ![p].pc = "release",
                                      ![p].messages = Messages(procs[p].queue, procs[p].agent_name)]
    /\ UNCHANGED <<lock_file, received, nsends, QueueRest>>

\* _release_lock in the finally clause, lines 38-43, 72-73 and 103-104
ReleaseLock(p) ==
    /\ procs[p].pc = "release"
    /\ lock_file' = FALSE
    /\ procs' = [procs EXCEPT ![p].pc = "return", ![p].lock = FALSE]
    /\ UNCHANGED <<queue_file, posted, received, nsends, QueueRest>>

\* the bag of the envelopes of a list, each with the agent it is returned to
RECURSIVE Returned_to(_, _)
Returned_to(agent_name, messages) ==
    IF messages = <<>>
    THEN EmptyBag
    ELSE SetToBag({[agent_name |-> agent_name, msg |-> Head(messages)]})
         (+) Returned_to(agent_name, Tail(messages))

\* the call returns: None from send_message, messages from get_messages (line 106)
ReturnCall(p) ==
    /\ procs[p].pc = "return"
    /\ procs' = [procs EXCEPT ![p] = NoCall]
    /\ received' = received (+) Returned_to(procs[p].agent_name, procs[p].messages)
    /\ UNCHANGED <<queue_file, lock_file, posted, nsends, QueueRest>>

\* the process ends inside a call (it is killed, the machine goes down); a
\* process that ends outside a call is one that makes no further call
Exit(p) ==
    /\ procs[p].pc \notin {"idle", "terminated"}
    /\ procs' = [procs EXCEPT ![p] = [NoCall EXCEPT !.pc = "terminated",
                                                     !.lock = procs[p].lock]]
    /\ lock_file' = marker_after_exit(procs[p].lock, lock_file)
    /\ UNCHANGED <<queue_file, posted, received, nsends, QueueRest>>

\* the steps of a running process inside a call
Step(p) ==
    \/ TryLock(p)
    \/ Wake(p)
    \/ ReadQueue(p)
    \/ WriteQueue(p)
    \/ ReleaseLock(p)
    \/ ReturnCall(p)

QueueNext ==
    \E p \in Procs :
        \/ SendCall(p)
        \/ GetCall(p)
        \/ Step(p)
        \/ Exit(p)

SpecQueue == QueueInit /\ [][QueueNext]_vars

\* send_message calls per run of the fair specification
MaxFairSends == 2

\* send_message is called, lines 45-52
FairSend(p) ==
    /\ nsends < MaxFairSends
    /\ SendCall(p)

\* runs in which no process ends
RunningNext ==
    \E p \in Procs :
        \/ FairSend(p)
        \/ GetCall(p)
        \/ Step(p)

\* the operating system keeps running every process that can take a step
FairSpecQueue ==
    QueueInit /\ [][RunningNext]_vars /\ \A p \in Procs : WF_vars(Step(p))

----------------------------------------------------------------------------
(* SpecPoll: the Audit agent constructed with a SharedMessageQueue and run  *)
(* by run_loop, with a sender that addresses audit payloads to it           *)

\* the methods class AuditAgent defines
AuditAgentMethods ==
    { "__init__", "_load_audit_logs", "_save_audit_logs", "get_logs", "health",
      "receive_audit", "handle_a2a_message", "process_a2a_message",
      "start_flask_server", "process_audit_log", "_format_ai_reasoning_as_notes",
      "_generate_regulatory_notes", "run_loop", "stop" }

\* self.<name>: the attribute lookup raises AttributeError for a name the
\* class does not define
getattr_raises(name) == name \notin AuditAgentMethods

\* the process that sends and the process that runs AuditAgent.run_loop
Sender == "p1"
Poller == "p2"

\* a sender puts an audit payload for the Audit agent in the queue
ForwardCall ==
    /\ procs[Sender].pc = "idle"
    /\ nsends < MaxQueueSends
    /\ procs' = [procs EXCEPT ![Sender] =
                    [NoCall EXCEPT !.pc = "acquire", !.op = "send",
                                   !.agent_name = "AuditAgent",
                                   !.msg = Envelope("AuditAgent", RequestPayload(nsends), nsends)]]
    /\ nsends' = nsends + 1
    /\ UNCHANGED <<queue_file, lock_file, posted, received, QueueRest>>

\* run_loop, line 274: self.a2a_queue.get_messages(self.name)
PollCall ==
    /\ procs[Poller].pc = "idle"
    /\ procs' = [procs EXCEPT ![Poller] =
                    [NoCall EXCEPT !.pc = "acquire", !.op = "get",
                                   !.agent_name = "AuditAgent"]]
    /\ UNCHANGED <<queue_file, lock_file, posted, received, nsends, QueueRest>>

\* run_loop, lines 274-281: get_messages has returned; the for loop looks up
\* self.process_audit_message for the first message, the AttributeError leaves
\* the loop and the except clause prints it; then the agent sleeps
DrainCycle ==
    /\ procs[Poller].pc = "return"
    /\ procs[Poller].messages = <<>> \/ getattr_raises("process_audit_message")
    /\ procs' = [procs EXCEPT ![Poller] = NoCall]
    /\ received' = received (+) Returned_to("AuditAgent", procs[Poller].messages)
    /\ UNCHANGED <<queue_file, lock_file, posted, nsends, QueueRest>>

PollNext ==
    \/ ForwardCall
    \/ PollCall
    \/ ReturnCall(Sender)
    \/ DrainCycle
    \/ \E p \in Procs :
        \/ TryLock(p)
        \/ Wake(p)
        \/ ReadQueue(p)
        \/ WriteQueue(p)
        \/ ReleaseLock(p)

SpecPoll == QueueInit /\ [][PollNext]_vars

----------------------------------------------------------------------------
(* SpecFiles: the queue from its construction on, with file operations     *)
(* that can fail                                                            *)

\* send_message calls per run of this specification
MaxFileSends == 2

\* outcomes of open(queue_file, 'w') followed by json.dump: written; open()
\* raised and the file is as it was; the dump raised after open() had
\* emptied the file
WriteOutcomes == {"ok", "open_failed", "write_failed"}

\* outcomes of open(lock_file, 'x') followed by f.write: the marker is
\* created and written; FileExistsError; the marker is created and writing
\* it raises an OSError
MarkerOutcomes(exists) ==
    IF exists THEN {"exists"} ELSE {"created", "write_failed"}

FilesInit ==
    /\ MockIdle
    /\ EngineIdle
    /\ DetectorIdle
    /\ LedgerEmpty
    /\ PipeInit
    /\ queue_state \in {"absent", "ok"}
    /\ queue_file = <<>>
    /\ lock_file = FALSE
    /\ procs = [p \in Procs |-> NoCall]
    /\ posted = EmptyBag
    /\ received = EmptyBag

FilesRest == <<handlers, mockVars, engineVars, detectorVars, ledgerVars, now, sent, monCall, valCall, valWork, inbox, reply>>

\* SharedMessageQueue(...) is called, lines 17-20
Construct(p) ==
    /\ procs[p].pc = "idle"
    /\ procs' = [procs EXCEPT ![p] = [NoCall EXCEPT !.pc = "exists", !.op = "init"]]
    /\ UNCHANGED <<queue_file, queue_state, lock_file, posted, received, nsends, FilesRest>>

\* _ensure_queue_file, line 24: os.path.exists(self.queue_file)
PathExists(p) ==
    /\ procs[p].pc = "exists"
    /\ procs' = [procs EXCEPT ![p] =
                    IF queue_state = "absent"
                    THEN [procs[p] EXCEPT !.pc = "create"]
                    ELSE NoCall]
    /\ UNCHANGED <<queue_file, queue_state, lock_file, posted, received, nsends, FilesRest>>

\* _ensure_queue_file, line 25: open(self.queue_file, 'w') creates the file or
\* empties the one that exists by now
OpenToCreate(p) ==
    /\ procs[p].pc = "create"
    /\ queue_state' = "empty"
    /\ queue_file' = <<>>
    /\ procs' = [procs EXCEPT ![p].pc = "dump"]
    /\ UNCHANGED <<lock_file, posted, received, nsends, FilesRest>>

\* _ensure_queue_file, line 26: json.dump([], f) and the file is closed
DumpEmpty(p) ==
    /\ procs[p].pc = "dump"
    /\ queue_state' = "ok"
    /\ queue_file' = <<>>
    /\ procs' = [procs EXCEPT ![p] = NoCall]
    /\ UNCHANGED <<lock_file, posted, received, nsends, FilesRest>>

\* send_message is called on a constructed queue, lines 45-52
FileSend(p) ==
    /\ procs[p].pc = "idle"
    /\ queue_state # "absent"
    /\ nsends < MaxFileSends
    /\ \E agent_name \in QueueAgents, message \in QueueMessages :
           procs' = [procs EXCEPT ![p] =
                        [NoCall EXCEPT !.pc = "acquire", !.op = "send",
                                       !.agent_name = agent_name,
                                       !.msg = Envelope(agent_name, message, nsends)]]
    /\ nsends' = nsends + 1
    /\ UNCHANGED <<queue_file, queue_state, lock_file, posted, received, FilesRest>>

\* get_messages is called on a constructed queue, lines 75-77
FileGet(p) ==
    /\ procs[p].pc = "idle"
    /\ queue_state # "absent"
    /\ \E agent_name \in QueueAgents :
           procs' = [procs EXCEPT ![p] =
                        [NoCall EXCEPT !.pc = "acquire", !.op = "get",
                                       !.agent_name = agent_name]]
    /\ UNCHANGED <<queue_file, queue_state, lock_file, posted, received, nsends, FilesRest>>

\* one _acquire_lock call of the waiting loop, lines 28-36, 55 and 80: an
\* OSError of f.write is not caught and leaves the call before its try
AcquireLock(p) ==
    /\ procs[p].pc = "acquire"
    /\ \E outcome \in MarkerOutcomes(lock_file) :
         CASE outcome = "created" ->
                  /\ lock_file' = TRUE
                  /\ procs' = [procs EXCEPT ![p].pc = "read", ![p].lock = TRUE]
           [] outcome = "exists" ->
                  /\ lock_file' = lock_file
                  /\ procs' = [procs EXCEPT ![p].pc = after_failed_attempt]
           [] outcome = "write_failed" ->
                  /\ lock_file' = TRUE
                  /\ procs' = [procs EXCEPT ![p].pc = "return"]
    /\ UNCHANGED <<queue_file, queue_state, posted, received, nsends, FilesRest>>

\* lines 60-61 and 85-86: open(queue_file, 'r') and json.load, which raise for
\* a missing or an empty file, or on a read error; the finally clause follows
ReadFile(p) ==
    /\ procs[p].pc = "read"
    /\ \E raises \in BOOLEAN :
           procs' = [procs EXCEPT ![p] =
                        IF raises \/ queue_state # "ok"
                        THEN [procs[p] EXCEPT !.pc = "release"]
                        ELSE [procs[p] EXCEPT !.pc = "write", !.queue = queue_file]]
    /\ UNCHANGED <<queue_file, queue_state, lock_file, posted, received, nsends, FilesRest>>

\* lines 64-68 and 89-98: the list is written back; the finally clause follows
WriteFile(p) ==
    /\ procs[p].pc = "write"
    /\ \E outcome \in WriteOutcomes :
         LET written == IF procs[p].op = "send"
                        THEN Appended(procs[p].queue, procs[p].msg)
                        ELSE Remaining(procs[p].queue, procs[p].agent_name)
         IN  /\ queue_file' = CASE outcome = "ok"           -> written
                                [] outcome = "open_failed"  -> queue_file
                                [] outcome = "write_failed" -> <<>>
             /\ queue_state' = CASE outcome = "ok"           -> "ok"
                                 [] outcome = "open_failed"  -> queue_state
                                 [] outcome = "write_failed" -> "empty"
             /\ posted' = IF outcome = "ok" /\ procs[p].op = "send"
                          THEN posted (+) SetToBag({procs[p].msg}) ELSE posted
             /\ procs' = [procs EXCEPT ![p].pc = "release",
                              ![p].messages =
                                  IF outcome = "ok" /\ procs[p].op = "get"
                                  THEN Messages(procs[p].queue, procs[p].agent_name)
                                  ELSE <<>>]
    /\ UNCHANGED <<lock_file, received, nsends, FilesRest>>

FilesNext ==
    \E p \in Procs :
        \/ Construct(p)
        \/ PathExists(p)
        \/ OpenToCreate(p)
        \/ DumpEmpty(p)
        \/ FileSend(p)
        \/ FileGet(p)
        \/ AcquireLock(p)
        \/ Wake(p)
        \/ ReadFile(p)
        \/ WriteFile(p)
        \/ ReleaseLock(p)
        \/ ReturnCall(p)

SpecFiles == FilesInit /\ [][FilesNext]_vars

----------------------------------------------------------------------------
(* Properties of the transport and of the handlers *)

\* the message type each role handles
HandledType(agent) ==
    IF agent = "ValidationAgent" THEN "consent_validation_request" ELSE "audit_log_request"

\* the handler of agent answers the request in its inbox in this step
Handles(agent) == inbox[agent] # None /\ inbox'[agent] = None

\* the step forwards nothing, starts no validation and leaves the ledger alone
NoEffect ==
    /\ UNCHANGED <<audit_logs, audit_file, appended, sent, valCall, valWork>>
    /\ \A a \in Endpoints : inbox'[a] = None

\* C3: an A2A envelope (protocol "A2A/1.0") whose to_agent is not the receiving agent
\* is answered rejected with reason "Message not for this agent"; whatever its protocol,
\* it is answered rejected and handling it has no effect: no validation, no forwarded
\* message, no ledger entry.
C3_MisaddressedRejected ==
    [][ \A agent \in Endpoints :
          ( Handles(agent) /\ Get(inbox[agent].env, "to_agent", "None") # agent ) =>
              LET message == inbox[agent].env
                  answer  == reply'[inbox[agent].caller]
              IN  /\ answer # None
                  /\ answer.by = agent
                  /\ answer.env = message
                  /\ answer.body.status = "rejected"
                  /\ DOMAIN answer.body = {"status", "reason"}
                  /\ message.protocol = "A2A/1.0" =>
                         answer.body.reason = <<"Message not for this agent">>
                  /\ NoEffect ]_vars

\* the Validation agent has rejected a consent_validation_request addressed to the
\* Audit agent
C3_Witness ==
    /\ reply["Client"] # None
    /\ reply["Client"].by = "ValidationAgent"
    /\ reply["Client"].env.protocol = "A2A/1.0"
    /\ reply["Client"].env.to_agent = "AuditAgent"
    /\ reply["Client"].env.message_type = "consent_validation_request"
    /\ reply["Client"].body = Rejected(<<"Message not for this agent">>)

\* the reason of the first check that fails, in the order protocol, addressee, type
FirstFailure(agent, message) ==
    IF Get(message, "protocol", "None") # "A2A/1.0" THEN <<"Unsupported protocol">>
    ELSE IF Get(message, "to_agent", "None") # agent THEN <<"Message not for this agent">>
    ELSE <<"Unknown message type: ", Get(message, "message_type", "None")>>

\* C4: an envelope whose protocol is not "A2A/1.0" or whose message_type is not the one
\* the receiving role handles is answered rejected, the ledger and the forwarded
\* messages stay as they are, and the reason is that of the first failing check in the
\* order protocol, addressee, message type.
C4_RejectedInCheckOrder ==
    [][ \A agent \in Endpoints :
          ( /\ Handles(agent)
            /\ \/ Get(inbox[agent].env, "protocol", "None") # "A2A/1.0"
               \/ Get(inbox[agent].env, "message_type", "None") # HandledType(agent) ) =>
              LET message == inbox[agent].env
                  answer  == reply'[inbox[agent].caller]
              IN  /\ answer # None
                  /\ answer.by = agent
                  /\ answer.env = message
                  /\ answer.body = Rejected(FirstFailure(agent, message))
                  /\ UNCHANGED <<audit_logs, audit_file, appended, sent>> ]_vars

\* the Audit agent has answered an envelope that fails all three checks with the
\* protocol reason
C4_Witness ==
    /\ reply["Client"] # None
    /\ reply["Client"].by = "AuditAgent"
    /\ reply["Client"].env.protocol = "A2A/2.0"
    /\ reply["Client"].env.to_agent = "ValidationAgent"
    /\ reply["Client"].env.message_type = "status_request"
    /\ reply["Client"].body = Rejected(<<"Unsupported protocol">>)
    /\ audit_logs = <<>>

\* the newest ledger entry is the one built from this audit payload
NewestEntryIs(audit_data) ==
    /\ audit_logs # <<>>
    /\ audit_logs[Len(audit_logs)] = AuditEntry(audit_data, now)

\* C5: when the Audit agent answers accepted the ledger already holds the entry built
\* from the envelope's payload; when the Validation agent answers accepted the result
\* has been computed and its one delivery attempt of the audit envelope is over; so
\* when the Audit agent was reached and accepted, the entry exists before Validation
\* answers and before Monitoring's send returns.
C5_AcceptedAfterProcessing ==
    /\ \A c \in Callers :
         ( reply[c] # None /\ reply[c].body.status = "accepted" ) =>
             LET payload == Get(reply[c].env, "payload", EmptyDict)
             IN  /\ reply[c].by = "AuditAgent" => NewestEntryIs(payload)
                 /\ reply[c].by = "ValidationAgent" =>
                        /\ reply[c].body.result = perform_ai_validation(payload)
                        /\ valCall # None
                        /\ valCall.pc = "returned"
                        /\ valCall.attempts = 1
                        /\ valCall.env.payload = AuditPayload(reply[c].body.result, payload, now)
                        /\ inbox["AuditAgent"] = None
                        /\ valCall.outcome = "accepted" => NewestEntryIs(valCall.env.payload)
    /\ ( /\ monCall # None
         /\ monCall.pc = "returned"
         /\ monCall.outcome = "accepted" ) =>
             /\ valCall # None
             /\ valCall.pc = "returned"
             /\ valCall.env.payload.trigger_data = monCall.env.payload
             /\ valCall.outcome = "accepted" => NewestEntryIs(valCall.env.payload)

\* Monitoring's send has returned accepted, the Audit agent had accepted Validation's
\* envelope, and the entry of the trigger is in the ledger
C5_Witness ==
    /\ monCall # None
    /\ monCall.pc = "returned"
    /\ monCall.outcome = "accepted"
    /\ valCall.outcome = "accepted"
    /\ Len(audit_logs) > 0
    /\ audit_logs[Len(audit_logs)].trigger_data = monCall.env.payload

\* the send_message calls of the two agents
SendCalls == {monCall, valCall} \ {None}

\* C6: send_message makes at most one delivery attempt per call (none when the target
\* has no endpoint) and returns the message id in every outcome: accepted, rejected
\* body, non-success status, network error or timeout, no endpoint; nothing is raised.
C6_SendOnceReturnsId ==
    \A call \in SendCalls :
        /\ call.attempts <= 1
        /\ call.pc = "posted" => call.attempts = 1
        /\ call.pc = "returned" =>
              /\ call.outcome \in {"accepted", "rejected", "http_error",
                                   "network_error", "timeout", "no_endpoint"}
              /\ call.ret = call.env.message_id
              /\ ~call.raised
              /\ (call.outcome = "no_endpoint") = (call.attempts = 0)

\* Validation's delivery to the Audit agent failed on the network, its send returned
\* the id all the same, and so did Monitoring's
C6_Witness ==
    /\ monCall # None
    /\ monCall.pc = "returned"
    /\ monCall.ret = monCall.env.message_id
    /\ valCall # None
    /\ valCall.pc = "returned"
    /\ valCall.outcome = "network_error"
    /\ valCall.attempts = 1
    /\ valCall.ret = valCall.env.message_id

\* C7: every envelope sent carries a message_id different from that of every other
\* envelope sent, the audit_log_request Validation forwards and two sends of equal
\* payloads in the same second included.
C7_MessageIdsUnique ==
    \A i, j \in DOMAIN sent : i # j => sent[i].message_id # sent[j].message_id

----------------------------------------------------------------------------
(* Properties of the decision engine *)

\* the invocation has returned a ValidationResult
Decided == result # None /\ ~result.raised

\* the delegated strategy was used and answered with text
Answered == client /\ generated.kind = "text"

\* the stripped lines of the response that start with the label, in order
Labelled(text, label) ==
    LET lines == Split(Strip(text), "\n")
    IN  SelectSeq([i \in DOMAIN lines |-> Strip(lines[i])],
                  LAMBDA line : StartsWith(line, Spell(label)))

\* the text after the first colon of the last line that starts with the label
Labelled_value(text, label) ==
    LET found == Labelled(text, label)
        line  == found[Len(found)]
    IN  Strip(SubSeq(line, FirstIndex(line, ":") + 1, Len(line)))

\* C11: every ValidationResult the engine produces, by the deterministic strategy or
\* by parsing a response, has valid = (decision = "APPROVE").
C11_ValidIffApprove ==
    Decided => (result.value.valid = (result.value.decision = "APPROVE"))

\* a parsed response whose decision text only begins with APPROVE is not valid
C11_Witness ==
    /\ Decided
    /\ Answered
    /\ result.value.ai_processed
    /\ result.value.decision = "APPROVE: YES"
    /\ result.value.valid = FALSE

\* C12: the confidence of every result is within [0.0, 1.0] (0..100 hundredths); a
\* CONFIDENCE value above 1 gives 1.0, one below 0 gives 0.0, an unparsable one 0.5.
C12_ConfidenceClamped ==
    Decided =>
        /\ result.value.confidence \in 0..100
        /\ ( Answered /\ Labelled(generated.text, "CONFIDENCE:") # <<>> ) =>
              LET given == float(Labelled_value(generated.text, "CONFIDENCE:"))
                  one   == [kind |-> "num", v |-> 100]
                  zero  == [kind |-> "num", v |-> 0]
              IN  /\ given.kind = "ValueError" => result.value.confidence = 50
                  /\ given.kind # "ValueError" /\ FloatLess(one, given) =>
                         result.value.confidence = 100
                  /\ given.kind # "ValueError" /\ FloatLess(given, zero) =>
                         result.value.confidence = 0

\* "CONFIDENCE: -0.3" has been parsed to 0.0
C12_Witness ==
    /\ Decided
    /\ Answered
    /\ Labelled(generated.text, "CONFIDENCE:") = <<Line(<<>>, "CONFIDENCE:", "-0.3")>>
    /\ result.value.confidence = 0

\* C13: every result has decision in {APPROVE, REJECT} and risk_level in
\* {LOW, MEDIUM, HIGH}, whatever follows the DECISION: and RISK_LEVEL: labels.
C13_EnumsOnly ==
    Decided =>
        /\ result.value.decision \in {"APPROVE", "REJECT"}
        /\ result.value.risk_level \in {"LOW", "MEDIUM", "HIGH"}

\* the trigger has the types the deterministic strategy expects
WellTyped(payload) == ~AmountRaises(payload) /\ ~PurposeRaises(payload)

\* C14: when the delegated call throws, times out or returns text with no DECISION:
\* line, the engine returns the result of the deterministic strategy for the trigger.
C14_FallbackEqualsDeterministic ==
    ( /\ result # None
      /\ client
      /\ WellTyped(trigger)
      /\ \/ generated.kind \in {"error", "timeout"}
         \/ generated.kind = "text" /\ Labelled(generated.text, "DECISION:") = <<>> ) =>
        result = Return(mock_validation(Untagged(trigger)))

\* C15: the parsed decision, confidence and risk level are taken from the text after
\* the first colon of the (last) line that starts with the label, case-sensitively;
\* without a DECISION: line the decision is REJECT, without or with an unparsable
\* CONFIDENCE: line the confidence is 0.5, without a RISK_LEVEL: line the risk is MEDIUM.
C15_LabelValues ==
    ( Decided /\ Answered ) =>
        LET text == generated.text
        IN  /\ result.value.decision =
                  IF Labelled(text, "DECISION:") = <<>> THEN "REJECT"
                  ELSE AsWord(Upper(Labelled_value(text, "DECISION:")))
            /\ result.value.risk_level =
                  IF Labelled(text, "RISK_LEVEL:") = <<>> THEN "MEDIUM"
                  ELSE AsWord(Upper(Labelled_value(text, "RISK_LEVEL:")))
            /\ Labelled(text, "CONFIDENCE:") = <<>> => result.value.confidence = 50
            /\ Labelled(text, "CONFIDENCE:") # <<>> =>
                  LET given == float(Labelled_value(text, "CONFIDENCE:"))
                  IN  /\ given.kind = "ValueError" => result.value.confidence = 50
                      /\ given.kind = "num" /\ given.v \in 0..100 =>
                             result.value.confidence = given.v

\* a response whose labels are in lower case has been parsed to the defaults
C15_Witness ==
    /\ Decided
    /\ Answered
    /\ generated.text = Line(<<>>, "decision:", "APPROVE") \o NewLine
                        \o Line(<<>>, "Confidence:", "0.3") \o NewLine
                        \o Line(<<>>, "risk_level:", "HIGH") \o NewLine
    /\ result.value.decision = "REJECT"
    /\ result.value.confidence = 50
    /\ result.value.risk_level = "MEDIUM"

\* C16: perform_ai_validation returns a result and raises nothing for every payload,
\* also one whose amount is no number or whose purpose is no text, with or without
\* the delegated strategy and whatever the delegated call does.
C16_EngineTotal ==
    result # None => ~result.raised

\* C17: ai_processed is true exactly when the result comes from a delegated call that
\* answered; without a credential the delegated strategy is never called; with one it
\* is called first, and the result of the fallback has ai_processed false.
C17_AiProcessedIffDelegated ==
    /\ ~client => ai_calls = 0
    /\ Decided =>
          /\ result.value.ai_processed = Answered
          /\ client => ai_calls = 1
          /\ ~Answered => result.value = mock_validation(Untagged(trigger))

\* the delegated call failed and the fallback result is not marked
C17_Witness ==
    /\ Decided
    /\ client
    /\ generated.kind = "error"
    /\ ai_calls = 1
    /\ result.value.ai_processed = FALSE

----------------------------------------------------------------------------
(* Properties of the detector *)

\* the routing numbers of the record are both present and unequal
RoutingDiffers(tx) ==
    /\ Get(tx, "from_routing_num", "") # ""
    /\ Get(tx, "to_routing_num", "") # ""
    /\ Get(tx, "from_routing_num", "") # Get(tx, "to_routing_num", "")

\* the amount of the record is a number above the limit
AmountAbove(tx, limit) ==
    LET amount == Get(tx, "amount", [num |-> 0])
    IN  "num" \in DOMAIN amount /\ amount.num > limit

\* the magnitude of the amount of the record is above the limit
MagnitudeAbove(tx, limit) ==
    LET amount == Get(tx, "amount", [num |-> 0])
    IN  "num" \in DOMAIN amount /\ Abs(amount.num) > limit

\* the rule order read on the amount as it stands
RuleOnAmount(tx) ==
    IF AmountAbove(tx, 5000) THEN "high_value_transaction"
    ELSE IF RoutingDiffers(tx) THEN "international_transfer"
    ELSE IF AmountAbove(tx, 1000) THEN "third_party_data_sharing"
    ELSE "none"

\* the rule order read on the magnitude of a numeric amount
RuleOnMagnitude(tx) ==
    IF "num" \notin DOMAIN Get(tx, "amount", [num |-> 0]) THEN "none"
    ELSE IF MagnitudeAbove(tx, 5000) THEN "high_value_transaction"
    ELSE IF RoutingDiffers(tx) THEN "international_transfer"
    ELSE IF MagnitudeAbove(tx, 1000) THEN "third_party_data_sharing"
    ELSE "none"

\* the triggers of the per-record rules among those returned
PerRecord == SelectSeq(triggers, LAMBDA t : t.type # "account_activity_review")

\* the per-record triggers are, record by record and in order, those of the rule
TriggersFollow(Rule(_)) ==
    LET matching == SelectSeq(transactions, LAMBDA tx : Rule(tx) # "none")
    IN  /\ Len(PerRecord) = Len(matching)
        /\ \A i \in DOMAIN matching :
              /\ PerRecord[i].transaction_id = matching[i].id
              /\ PerRecord[i].type = Rule(matching[i])

\* C18 as stated: each record yields at most one trigger, first match in the order
\* amount > 5000, routing numbers present and unequal, amount > 1000.
C18_FirstMatchOnAmount == TriggersFollow(RuleOnAmount)

\* C18: each record with a numeric amount yields at most one trigger, first match in
\* the order |amount| > 5000 (also when the routing numbers differ), routing numbers
\* present and unequal, |amount| > 1000; a record whose amount is no number yields none.
C18_FirstMatchOnMagnitude == TriggersFollow(RuleOnMagnitude)

\* a batch with a debit of 7500 and a high-value record sent abroad has been analysed
C18_Witness ==
    /\ Len(transactions) = 8
    /\ transactions[3].amount = [num |-> -7500]
    /\ RoutingDiffers(transactions[1])
    /\ Len(PerRecord) = 6
    /\ PerRecord[1].type = "high_value_transaction"
    /\ PerRecord[3].transaction_id = 3
    /\ PerRecord[3].type = "high_value_transaction"

\* the records of the batch beyond the previous batch
NewSince(previous, batch) == SubSeq(batch, Len(previous) + 1, Len(batch))

\* the review triggers returned for the account
ReviewsFor(returned, account) ==
    { i \in DOMAIN returned :
        returned[i].type = "account_activity_review" /\ returned[i].user_id = account }

\* C19: in a cycle whose batch extends the previous one by records of which none
\* matches a per-record rule, exactly one account_activity_review trigger is returned
\* for each account with 3 or more new records and none for any other account,
\* whether or not records seen in earlier cycles match a per-record rule.
C19_ReviewPerBusyAccount ==
    [][ ( /\ Len(seen_sizes') = Len(seen_sizes) + 1
          /\ Len(transactions) = last_transaction_count
          /\ Len(transactions') >= Len(transactions)
          /\ SubSeq(transactions', 1, Len(transactions)) = transactions
          /\ \A i \in (Len(transactions) + 1)..Len(transactions') :
                 RuleOnMagnitude(transactions'[i]) = "none" ) =>
            \A account \in {AccountA, AccountB, AccountC} :
                Cardinality(ReviewsFor(triggers', account)) =
                    IF Len(ActivityOf(NewSince(transactions, transactions'), account)) >= 3
                    THEN 1 ELSE 0 ]_vars

\* the largest of the batch sizes, 0 when there is none
RECURSIVE Largest(_)
Largest(sizes) ==
    IF sizes = <<>> THEN 0
    ELSE LET rest == Largest(Tail(sizes))
         IN  IF Head(sizes) > rest THEN Head(sizes) ELSE rest

\* C20: last_transaction_count never decreases from one cycle to the next, an empty
\* or a smaller batch included, and after each cycle it is the largest batch size
\* observed so far.
C20_SeenCountMonotonic ==
    [][ /\ last_transaction_count' >= last_transaction_count
        /\ last_transaction_count' = Largest(seen_sizes') ]_vars

\* after a batch of 8 came an empty and a smaller one, and the count is still 8
C20_Witness ==
    /\ seen_sizes = <<8, 0, 2>>
    /\ Len(transactions) = 2
    /\ last_transaction_count = 8

\* the record carries no amount, or one that is no number
NoNumericAmount(tx) == "amount" \notin DOMAIN tx \/ "num" \notin DOMAIN tx.amount

\* a per-record trigger was returned for the record
TriggeredBy(tx) == \E j \in DOMAIN PerRecord : PerRecord[j].transaction_id = tx.id

\* C21: a record whose amount is non-numeric or missing yields no per-record trigger
\* of any type, and the other records of the batch are evaluated all the same.
C21_NoAmountNoTrigger ==
    \A i \in DOMAIN transactions :
        LET tx == transactions[i]
        IN  IF NoNumericAmount(tx) THEN ~TriggeredBy(tx)
            ELSE RuleOnMagnitude(tx) # "none" => TriggeredBy(tx)

\* the trigger types of the data model
TriggerTypes ==
    {"high_value_transaction", "international_transfer", "third_party_data_sharing",
     "account_activity_review", "other"}

\* C22: every trigger the Monitoring agent sends in a polling cycle, from the
\* per-record rules, the periodic review or the fallback used when polling fails, has
\* a type of the data model and, where it carries an amount, amount >= 0.
C22_SentTriggersWellFormed ==
    \A i \in DOMAIN outbox :
        /\ outbox[i].type \in TriggerTypes
        /\ "amount" \in DOMAIN outbox[i] => outbox[i].amount >= 0

\* the _save_audit_logs calls of the last append all wrote the file
SavedAll == saved # <<>> /\ \A i \in DOMAIN saved : saved[i] = "ok"

\* a step that is one call of process_audit_log
IsAppend == saved' # <<>> /\ Len(appended') = Len(appended) + 1

\* C23: when an append completes without a storage error, the ledger file equals
\* the in-memory ledger by the time the append returns, also after an append that
\* truncated to 100 entries; the file is written once by an append that does not
\* truncate and twice, before and after the truncation, by one that does.
C23_WriteThrough ==
    [][IsAppend =>
          /\ Len(saved') = (IF Len(audit_logs) + 1 > LedgerCap THEN 2 ELSE 1)
          /\ (\A i \in DOMAIN saved' : saved'[i] = "ok")
                 => audit_file' = FileOf(audit_logs')]_vars

\* an append that truncated has returned, both writes succeeded, and the file holds
\* the 100 entries of the ledger
C23_Witness ==
    /\ Len(appended) = LedgerCap + 1
    /\ saved = <<"ok", "ok">>
    /\ Len(audit_logs) = LedgerCap
    /\ audit_file = FileOf(audit_logs)
\* a step that is a restart after an append
IsRestart == saved # <<>> /\ saved' = <<>>

SaveFailed == \E i \in DOMAIN saved : saved[i] # "ok"

\* C25: an append during which a write of the ledger file fails still completes: the
\* new entry is the last of the in-memory ledger, the ledger is cut to its last 100
\* entries, and the caller is answered accepted.
C25_AppendSurvivesSaveFailure ==
    [][(IsAppend /\ SaveFailed') =>
          /\ audit_logs'[Len(audit_logs')] = appended'[Len(appended')]
          /\ audit_logs' = LastN(appended', Min(Len(appended'), LedgerCap))
          /\ Handles("AuditAgent")
          /\ LET answer == reply'[inbox["AuditAgent"].caller]
             IN  /\ answer.status_code = 200
                 /\ answer.body.status = "accepted"]_vars

\* the 101st entry was appended while both writes failed: the ledger holds 100
\* entries, the file is unreadable, and the caller has the accepted answer
C25_Witness ==
    /\ Len(appended) = LedgerCap + 1
    /\ saved = <<"write_failed", "write_failed">>
    /\ Len(audit_logs) = LedgerCap
    /\ audit_logs[LedgerCap] = appended[LedgerCap + 1]
    /\ audit_file = CorruptFile
    /\ reply["Client"] # None
    /\ reply["Client"].body.status = "accepted"

----------------------------------------------------------------------------
(* Properties of the file-backed queue *)

\* the envelopes of a queue addressed to an agent, and the others, in queue order
AddressedTo(queue, agent) == SelectSeq(queue, LAMBDA m : m.to = agent)
NotAddressedTo(queue, agent) == SelectSeq(queue, LAMBDA m : m.to # agent)

\* process p writes the queue file back in this step
Writes(p) == procs[p].pc = "write" /\ procs'[p].pc = "release"

\* C26: send_message appends its envelope at the tail of the persisted sequence and
\* changes nothing else of it; get_messages(A) returns exactly the envelopes
\* addressed to A in queue order and leaves exactly the other envelopes in their
\* original relative order, so that nothing addressed to A is left for a second
\* get_messages(A).
C26_SendAppendsGetDrains ==
    [][\A p \in Procs : Writes(p) =>
          IF procs[p].op = "send"
          THEN /\ queue_file' = Append(queue_file, procs[p].msg)
               /\ procs'[p].messages = <<>>
          ELSE /\ procs'[p].messages = AddressedTo(queue_file, procs[p].agent_name)
               /\ queue_file' = NotAddressedTo(queue_file, procs[p].agent_name)
               /\ AddressedTo(queue_file', procs[p].agent_name) = <<>>]_vars

\* a get_messages call is about to return two envelopes in the order they were
\* sent, the envelope for the other agent is still in the queue, and no other
\* process is in a call
C26_Witness ==
    \E p \in Procs :
        /\ procs[p].pc = "return"
        /\ procs[p].op = "get"
        /\ Len(procs[p].messages) = 2
        /\ procs[p].messages[1].timestamp < procs[p].messages[2].timestamp
        /\ Len(queue_file) = 1
        /\ queue_file[1].to # procs[p].agent_name
        /\ queue_file[1].timestamp < procs[p].messages[2].timestamp
        /\ \A q \in Procs \ {p} : procs[q].pc = "idle"

\* the processes between acquiring and releasing the marker
Holders == {p \in Procs : procs[p].pc \in {"read", "write", "release"}}

\* C27: the lock marker is held by at most one caller, and a caller that reads or
\* rewrites the queue file in send_message or get_messages holds it.
C27_MutualExclusion ==
    /\ Cardinality({p \in Procs : procs[p].lock}) <= 1
    /\ Cardinality(Holders) <= 1
    /\ \A p \in Holders : procs[p].lock /\ lock_file

\* one caller is about to write the queue back while another, which found the
\* marker present, sleeps
C27_Witness ==
    \E p, q \in Procs :
        /\ procs[p].pc = "write"
        /\ procs[p].lock
        /\ procs[q].pc = "sleep"
        /\ ~procs[q].lock

NoExit == \A p \in Procs : procs[p].pc # "terminated"

\* the envelopes get_messages calls have taken out of the queue and not yet returned
RECURSIVE Taken(_)
Taken(S) ==
    IF S = {}
    THEN EmptyBag
    ELSE LET p == CHOOSE q \in S : TRUE
         IN  (IF procs[p].op = "get" /\ procs[p].pc \in {"release", "return"}
              THEN Returned_to(procs[p].agent_name, procs[p].messages)
              ELSE EmptyBag) (+) Taken(S \ {p})

RECURSIVE BagOfSeq(_)
BagOfSeq(seq) ==
    IF seq = <<>> THEN EmptyBag ELSE SetToBag({Head(seq)}) (+) BagOfSeq(Tail(seq))

\* C28: in every interleaving without a process ending, each envelope written by
\* send_message is in the queue, or is returned by one get_messages call, exactly
\* once in all (an envelope a call has taken out of the queue and is about to return
\* counts as returned by it), and a call returns only envelopes addressed to the
\* agent it was made for.
C28_NoLossNoDuplication ==
    NoExit =>
        LET out == received (+) Taken(Procs)
        IN  /\ \A e \in BagToSet(posted) :
                   CopiesIn(e, posted) =
                       CopiesIn(e, BagOfSeq(queue_file))
                       + CopiesIn([agent_name |-> e.to, msg |-> e], out)
            /\ \A r \in BagToSet(out) : r.agent_name = r.msg.to /\ BagIn(r.msg, posted)
            /\ \A i \in DOMAIN queue_file : BagIn(queue_file[i], posted)

\* while one process is about to write the third envelope, another is returning the
\* second, which it took out of the queue; the first has been returned before
C28_Witness ==
    /\ NoExit
    /\ \E p, q \in Procs :
          /\ procs[p].op = "send" /\ procs[p].pc = "write"
          /\ procs[q].op = "get" /\ procs[q].pc = "return" /\ Len(procs[q].messages) = 1
    /\ BagCardinality(posted) = 2
    /\ BagCardinality(received) = 1

\* a process has ended between acquiring and releasing the marker
DeadHolder == \E p \in Procs : procs[p].pc = "terminated" /\ procs[p].lock

Waiting(p) == procs[p].pc \in {"acquire", "sleep"}

\* C29: once a process has ended while holding the lock marker, the marker stays in
\* place, no call acquires it, and every call that waits for it goes on waiting.
C29_DeadHolderBlocksAll ==
    [][DeadHolder =>
          /\ lock_file /\ lock_file'
          /\ DeadHolder'
          /\ \A p \in Procs : procs'[p].pc \notin {"read", "write", "release"}
          /\ \A p \in Procs : procs[p].pc # "return" => procs'[p].pc # "return"
          /\ \A p \in Procs :
                 Waiting(p) => procs'[p].pc \in {"acquire", "sleep", "terminated"}]_vars

\* a process ended holding the marker, a send_message call that began later has
\* tried and sleeps, and the queue file is as the dead process left it
C29_Witness ==
    /\ DeadHolder
    /\ lock_file
    /\ \E p \in Procs : procs[p].pc = "sleep" /\ procs[p].op = "send"
                        /\ procs[p].msg.timestamp = 1
    /\ Len(queue_file) = 1

\* C30 as stated: when no process ends and every running process keeps taking
\* steps, every call that waits for the marker eventually returns.
C30_EveryCallReturns ==
    \A p \in Procs : Waiting(p) ~> procs[p].pc = "idle"

\* no call begins in this step
NoNewCall == \A p \in Procs : procs[p].pc = "idle" => procs'[p].pc \in {"idle", "terminated"}

\* C30: a caller that waits for the marker goes on trying and leaves the waiting
\* loop only with the marker acquired; when no process ends, every running process
\* keeps taking steps and calls eventually stop beginning, every call that waits
\* eventually returns.
C30_RetryUntilAcquired ==
    /\ [][\A p \in Procs :
             Waiting(p) => \/ Waiting(p)'
                           \/ procs'[p].pc = "read" /\ procs'[p].lock /\ ~lock_file]_vars
    /\ <>[][NoNewCall]_vars => C30_EveryCallReturns

\* a caller has found the marker present and sleeps while the holder is about to
\* release it; both are running
C30_Witness ==
    /\ NoExit
    /\ \E p, q \in Procs :
          /\ procs[p].pc = "sleep"
          /\ procs[q].pc = "release"
          /\ lock_file
----------------------------------------------------------------------------
(* Properties of the end-to-end scenario and of the notes *)

HasNote(notes, text) == \E i \in DOMAIN notes : notes[i].note = text

\* the trigger is above the high-value threshold and names a provider other than the bank
HighValueThirdParty(t) ==
    Get(t, "amount", 0) > 5000 /\ Get(t, "third_party_provider", "unknown") # "bank"

Rejected_HIGH_85(validation_result) ==
    /\ validation_result.decision = "REJECT"
    /\ validation_result.risk_level = "HIGH"
    /\ validation_result.confidence = 85
    /\ ~validation_result.valid

\* C31: with the deterministic strategy a trigger with amount > 5000 and a provider
\* other than the bank scores at least 4 (4 for a purpose that is not international),
\* the result Validation answers and forwards is REJECT, HIGH, 0.85, and the ledger
\* entry appended for it carries the PSD3 rejection note and the high-value note.
C31_HighValueThirdPartyEndToEnd ==
    /\ \A t \in ScenarioTriggers : HighValueThirdParty(t) => RiskScore(t) = 4
    /\ \A i \in DOMAIN audit_logs :
          LET e == audit_logs[i]
          IN  HighValueThirdParty(e.trigger_data) =>
                 /\ Rejected_HIGH_85(e.validation_result)
                 /\ HasNote(e.regulatory_notes,
                            "PSD3 Compliance: X Request does not meet all regulatory requirements")
                 /\ HasNote(e.regulatory_notes,
                            "High-Value Review: X requires additional compliance measures")
    /\ ( reply["MonitoringAgent"] # None
         /\ reply["MonitoringAgent"].body.status = "accepted"
         /\ HighValueThirdParty(reply["MonitoringAgent"].env.payload) ) =>
             Rejected_HIGH_85(reply["MonitoringAgent"].body.result)

\* Monitoring has the accepted answer for the trigger of 7500 with FinTechCorp and
\* the ledger holds the entry for it
C31_Witness ==
    /\ reply["MonitoringAgent"] # None
    /\ reply["MonitoringAgent"].body.status = "accepted"
    /\ reply["MonitoringAgent"].body.result.decision = "REJECT"
    /\ Len(audit_logs) = 1
    /\ audit_logs[1].trigger_data.amount = 7500
    /\ audit_logs[1].trigger_data.third_party_provider = "FinTechCorp"
    /\ audit_logs[1].validation_result.confidence = 85
    /\ Len(audit_logs[1].regulatory_notes) >= 7
\* the notes of the entry come from the fixed template
FromTemplate(e) ==
    LET reasoning == Get(e.validation_result, "reasoning", <<>>)
    IN  reasoning = <<>> \/ TextLen(reasoning) <= 50

Critical == "CRITICAL: Low confidence validation - manual review required"
Warning  == "WARNING: Moderate confidence - additional verification recommended"

\* C32: in an entry whose notes come from the fixed template, a confidence below 0.7
\* adds a confidence warning and a confidence below 0.5 adds the manual-review note,
\* whether the result is approved or rejected.
C32_LowConfidenceWarned ==
    \A i \in DOMAIN audit_logs :
        LET e == audit_logs[i]
            confidence == Get(e.validation_result, "confidence", 0)
        IN  FromTemplate(e) =>
               /\ confidence < 70 => HasNote(e.regulatory_notes, Warning)
                                      \/ HasNote(e.regulatory_notes, Critical)
               /\ confidence < 50 => HasNote(e.regulatory_notes, Critical)
----------------------------------------------------------------------------
(* Properties of the HTTP boundary *)

\* the response just given answers a request whose body was missing, empty or
\* not parseable
Unusable(response) ==
    /\ response # None
    /\ "request" \in DOMAIN response.env
    /\ \/ response.env.request.kind \in {"missing", "unparseable"}
       \/ /\ response.env.request.kind = "json"
          /\ DOMAIN response.env.request.value = {}

\* C33: a POST to /a2a, /validate or /audit whose body is missing, empty or not
\* parseable is answered with a 4xx status, and it leaves the ledger, the file,
\* the envelopes sent and the requests in progress as they were.
C33_UnusableBodyClientError ==
    [][(reply["Client"] = None /\ Unusable(reply'["Client"]))
       => /\ reply'["Client"].status_code \in 400..499
          /\ UNCHANGED <<ledgerVars, sent, valCall, valWork, inbox>>]_vars

----------------------------------------------------------------------------
(* Properties of concurrent appends *)

\* the entries the ledger held at start, and those appended since, in the order
\* of their list.append
Loaded   == SelectSeq(appended, LAMBDA entry : entry.timestamp < 2000)
Arrivals == SelectSeq(appended, LAMBDA entry : entry.timestamp >= 2000)

\* every order in which the entries of s can be taken one after another
Orderings(s) ==
    { [i \in 1..Len(s) |-> s[f[i]]] :
      f \in { g \in [1..Len(s) -> 1..Len(s)] :
              \A i, j \in 1..Len(s) : g[i] = g[j] => i = j } }

AllReturned == \A t \in Threads : handlers[t].pc = "idle"

\* C34: when all concurrent appends have returned, the in-memory ledger is the
\* last 100 entries of the start ledger followed by the appended entries in some
\* sequential order; so an acknowledged entry is absent only by the cap.
C34_ConcurrentAppendsSerializable ==
    AllReturned =>
        \E order \in Orderings(Arrivals) : audit_logs = Truncate(Loaded \o order)

----------------------------------------------------------------------------
(* Properties of the queue as the transport to the Audit agent *)

\* the envelopes the polling loop has drained
Drained == { r \in BagToSet(received) : r.agent_name = "AuditAgent" }

\* C35: every envelope addressed to AuditAgent that the polling loop has drained
\* from the queue has its ledger entry, the entry process_audit_log builds for
\* its payload, and the ledger grew by one entry per drained envelope.
C35_DrainedEnvelopeRecorded ==
    /\ \A r \in Drained :
           \E i \in DOMAIN appended : appended[i] = AuditEntry(r.msg.payload, now)
    /\ Len(appended) = Cardinality(Drained)

----------------------------------------------------------------------------
(* Properties of the detector over polled batches *)

\* the step is a cycle that ran the detector
IsPoll == seen_sizes' # seen_sizes

\* the records of the new batch that the batch before did not hold
Fresh ==
    SelectSeq(transactions',
              LAMBDA tx : \A i \in DOMAIN transactions : transactions[i] # tx)

SetOf(s) == {s[i] : i \in DOMAIN s}

\* C36: in every cycle the records counted as new are exactly the records of
\* the batch that the previous batch did not hold, wherever they sit in the
\* concatenation of the per-account lists, and a review trigger carries the
\* number of such records of its account.
C36_NewAreTheUnseen ==
    [][IsPoll =>
         /\ SetOf(NewTransactions(transactions', last_transaction_count)) = SetOf(Fresh)
         /\ \A i \in DOMAIN triggers' :
                triggers'[i].type = "account_activity_review" =>
                    triggers'[i].transaction_count =
                        Len(ActivityOf(Fresh, triggers'[i].user_id))]_vars

\* the triggers of the per-record rules and of the review rule in an output
RecordRuled(returned) ==
    { i \in DOMAIN returned : returned[i].type \in
        {"high_value_transaction", "international_transfer", "third_party_data_sharing"} }
ReviewRuled(returned) ==
    { i \in DOMAIN returned : returned[i].type = "account_activity_review" }

\* the output of the last cycle holds triggers of both kinds
BothKinds == RecordRuled(triggers) # {} /\ ReviewRuled(triggers) # {}

C38_RulesOnWholeBatch ==
    [][IsPoll =>
         \A i \in DOMAIN transactions' :
             RuleOnMagnitude(transactions'[i]) # "none" =>
                 Cardinality({ j \in RecordRuled(outbox') :
                                 outbox'[j].transaction_id = transactions'[i].id }) = 1]_vars

\* a second cycle: the record above 1000 of the first cycle is not among the
\* new records and its trigger is sent again
C38_Witness ==
    /\ Len(seen_sizes) = 2
    /\ seen_sizes[2] > seen_sizes[1]
    /\ \E i \in DOMAIN transactions :
          /\ transactions[i].id = 11
          /\ i <= Len(transactions) - (seen_sizes[2] - seen_sizes[1])
    /\ \E j \in RecordRuled(outbox) : outbox[j].transaction_id = 11

----------------------------------------------------------------------------
(* Properties of the queue file and of the lock marker *)

\* the step is taken by a constructor
ConstructorStep == \E p \in Procs : procs[p].op = "init" /\ procs'[p] # procs[p]

\* C39: a step of a SharedMessageQueue constructor leaves every envelope that
\* is in the queue file in it, however constructors and send_message calls
\* interleave.
C39_ConstructorKeepsEnvelopes ==
    [][ConstructorStep =>
          \A i \in DOMAIN queue_file :
              \E j \in DOMAIN queue_file' : queue_file'[j] = queue_file[i]]_vars

\* C40: no process ends inside a call here, and whenever no call is in progress
\* the lock marker does not exist: every exit of send_message and get_messages
\* has removed it, also after a read or a write that raised.
C40_LockFreeWhenIdle ==
    (\A p \in Procs : procs[p].pc = "idle") => ~lock_file

====
